---- MODULE Spec2Model ----
(***************************************************************************)
(* Component lifecycle supervision of n0m1_agi: the three manager scripts  *)
(* (daemon_manager.py, nano_manager.py, main_llm_manager.py), the shared   *)
(* stop protocol of manager_utils.py, and the environment they act on      *)
(* (registry table, PID files, OS process table, lifecycle log).           *)
(*                                                                         *)
(* Every manager operation is one atomic action: the managers are          *)
(* single-threaded scripts and each action below is one completed call.    *)
(* What the operating system decides during a call (whether a spawn        *)
(* succeeds, whether the caller may signal the process, how the process    *)
(* reacts to SIGTERM and SIGKILL, whether it exits on its own between two  *)
(* steps of the call) is an input of the action, drawn with \E.            *)
(*                                                                         *)
(* Modelling conventions                                                   *)
(*  - PIDs are never reused: a spawn takes the next unused PID.            *)
(*  - Python None and SQL NULL are written None; PID files written by the  *)
(*    managers only ever hold positive integers.                           *)
(*  - PID directory and log directory are readable and writable.           *)
(*  - The database can always be read; a write to it can fail (locked or   *)
(*    full database: sqlite3.Error), which db_writable = FALSE stands for. *)
(*  - spawned[pid].rows_before is the length of the lifecycle table at the *)
(*    moment of the spawn: it records the order of INSERT and Popen inside *)
(*    one call.                                                            *)
(*  - A signal reaches boot_system_enhanced.py between two steps of its    *)
(*    run (a launch, a health check), not in the middle of one.            *)
(*  - os.killpg on the process group of a manager also reaches the         *)
(*    components the manager spawned into that group; only the effect on   *)
(*    the manager process itself is modelled.                              *)
(*  - daemon_manager.py lines 276 and 294 put "if ..: try: .. except: .."  *)
(*    on one line; they are read as the evident nested statement.          *)
(***************************************************************************)
EXTENDS Integers, Sequences, FiniteSets, TLC

\* ---------------------------------------------------------------- bounds
\* Total number of lifecycle rows in one behaviour. Every spawn is preceded
\* by a START_ATTEMPT row, so this bounds the number of processes too.
MaxLog == 3

\* Total number of lifecycle rows in one behaviour of the boot orchestrator.
MaxBootLog == 5

\* Longest text of a PID file explored, in characters.
MaxTextLen == 3

\* llm_notifications holds at most MaxNotifications rows.
MaxNotifications == 2

\* llm_outputs holds at most MaxOutputs rows, with ids up to MaxOutputId.
MaxOutputs == 2
MaxOutputId == 2

\* Start sequences of one component that may be in progress at once.
MaxStarts == 2

\* write_pid_file is handed every PID from -2 to MaxPid, and a few long ones.
MaxPid == 12

\* ------------------------------------------------------------- constants
None == 0

DAEMON_MANAGER == "daemon_manager"
NANO_MANAGER == "nano_manager"
MAIN_LLM_MANAGER == "main_llm_manager"
Managers == {DAEMON_MANAGER, NANO_MANAGER, MAIN_LLM_MANAGER}

\* component_id of the default rows of autorun_components, in table order.
RegistryOrder == <<"temp_main_daemon", "system_metrics_daemon",
                   "main_llm_processor", "nano_analyzer_01">>
ComponentIds == {RegistryOrder[i] : i \in 1..Len(RegistryOrder)}

\* manager_affinity column of the default rows.
default_manager_affinity(c) ==
    CASE c = "temp_main_daemon" -> DAEMON_MANAGER
      [] c = "system_metrics_daemon" -> DAEMON_MANAGER
      [] c = "main_llm_processor" -> MAIN_LLM_MANAGER
      [] c = "nano_analyzer_01" -> NANO_MANAGER

\* desired_state column of the default rows.
default_desired_state(c) ==
    IF default_manager_affinity(c) = DAEMON_MANAGER THEN "active" ELSE "inactive"

\* launch_args_json column of the default rows: '{}' or a JSON object.
default_launch_args_json(c) ==
    IF default_manager_affinity(c) = DAEMON_MANAGER THEN "{}" ELSE "object"

\* What json.loads makes of a launch_args_json value: '{}' is not parsed at
\* all, "object" parses to a dict, "not_json" raises json.JSONDecodeError,
\* "not_object" parses to a list, a string or a number.
ArgsKinds == {"{}", "object", "not_json", "not_object"}

\* The installations explored: each registry holds one or two of the default rows.
Installations ==
    {{"temp_main_daemon", "system_metrics_daemon"},
     {"temp_main_daemon", "nano_analyzer_01"},
     {"main_llm_processor"}}

VARIABLES
    autorun_components,       \* registry: component_id -> [manager_affinity,
                              \*   desired_state, launch_args_json]
    db_writable,              \* an INSERT into the database succeeds
    scripts,                  \* components whose base_script_name exists on disk
    pid_files,                \* PID_DIR: component_id -> PID, for the files that exist
    spawned,                  \* OS: sequence of every process ever spawned; index = PID
    live,                     \* OS: PIDs of the processes that exist now
    component_lifecycle_log,  \* the lifecycle table, oldest row first
    lastOp,                   \* the last completed manager call, with what it saw
    boot,                     \* boot_system_enhanced.py: [pc, i, code, critical,
                              \*   pid_file, process]
    launched_managers,        \* BootSystem.launched_managers: tracked managers,
                              \*   in insertion order
    mgr_proc,                 \* OS: manager -> [gen, status] of its latest process
    bootOp,                   \* the last completed step of the boot orchestrator
    pid_file_text,            \* one PID file as the text on disk: [exists, text]
    pidOp,                    \* the last call on the PID file: read_pid_file,
                              \*   write_pid_file, a probe or a stop
    llm_io_config,            \* the llm_io_config row of main_llm_processor
    llm_notifications,        \* the llm_notifications table, in rowid order
    llm_outputs,              \* the llm_outputs table, in rowid order
    daemons,                  \* the local variables of the llm daemons' loops
    llmOp,                    \* the last completed poll of an llm daemon
    starts                    \* start sequences in progress: starter ->
                              \*   [pc, entry, component_id, pid, began_after]

Components == DOMAIN autorun_components
manager_affinity(c) == autorun_components[c].manager_affinity
desired_state(c) == autorun_components[c].desired_state
launch_args_json(c) == autorun_components[c].launch_args_json

\* The rows of the table, in table order.
Rows == SelectSeq(RegistryOrder, LAMBDA c : c \in Components)

bootVars == <<boot, launched_managers, mgr_proc, bootOp>>

pidTextVars == <<pid_file_text, pidOp>>

llmVars == <<llm_io_config, llm_notifications, llm_outputs, daemons, llmOp>>

stepVars == <<starts>>

vars == <<autorun_components, db_writable, scripts, pid_files, spawned, live,
          component_lifecycle_log, lastOp, boot, launched_managers, mgr_proc,
          bootOp, pid_file_text, pidOp, llm_io_config, llm_notifications,
          llm_outputs, daemons, llmOp, starts>>

\* The process group of a manager the orchestrator launched: os.setsid makes
\* the manager process the leader of a group of its own, one per launch.
\* A manager run from a terminal is in the group of the shell's job.
\* Generation numbers are reused (NextGen): the group of a manager process
\* that has been replaced twice is written OldGroup from then on.
ShellGroup == <<"shell", 0>>
OldGroup == <<"old", 0>>
ManagerGroup(m, gen) == <<m, gen>>

\* --------------------------------------------------- the world of a call
\* A call transforms a world record; the action commits the final world.
World ==
    [pf |-> pid_files, spawned |-> spawned, live |-> live,
     log |-> component_lifecycle_log,
     db_ok |-> db_writable,
     pgid |-> ShellGroup,   \* the process group of the manager process
     launch_args |-> <<>>,  \* launch_args_list of the start_component call
     sent |-> <<>>,     \* signals delivered by this call: <<pid, signal>>
     failed |-> {},     \* components whose Popen raised in this call
     notes |-> {},      \* "timeout" and the exceptions raised in this call
     warned |-> {},     \* components a launch_args_json WARNING was printed for
     ret |-> "none"]    \* return value of the call: "ok" (True), "fail" (False), "none"

\* What the operating system decides during one call.
\*   perm       the caller may signal the component's process
\*   spawn_ok   the components whose Popen succeeds
\*   race_dead  the process exits between the liveness probe and the first signal
\*   term_exits the process exits on SIGTERM within the bounded wait
\*   late_exit  the process exits between the last poll and the SIGKILL
\*   kill_dies  the process is gone one second after the SIGKILL
NoInput ==
    [perm |-> TRUE, spawn_ok |-> {}, race_dead |-> FALSE, term_exits |-> FALSE,
     late_exit |-> FALSE, kill_dies |-> FALSE]

StartInputs(targets) ==
    {[NoInput EXCEPT !.perm = p, !.spawn_ok = s] :
        p \in BOOLEAN, s \in SUBSET targets}

\* The five ways a stop of a probed-alive process can go, each with and
\* without the permission to signal it.
StopInputs ==
    {[NoInput EXCEPT !.perm = p, !.race_dead = (x = 1), !.term_exits = (x = 2),
                     !.late_exit = (x = 3), !.kill_dies = (x = 4)] :
        p \in BOOLEAN, x \in 1..5}

\* ------------------------------------------------------ process utilities
\* os.kill(pid, 0) raises OSError when the process does not exist and also
\* (PermissionError) when the caller may not signal it: both give False.
is_process_running(w, pid, in) ==
    /\ pid # None
    /\ pid \in w.live
    /\ in.perm

read_pid_file(w, c) ==
    IF c \in DOMAIN w.pf THEN w.pf[c] ELSE None

write_pid_file(w, c, pid) ==
    [w EXCEPT !.pf = [x \in (DOMAIN w.pf) \cup {c} |->
                        IF x = c THEN pid ELSE w.pf[x]]]

remove_pid_file(w, c) ==
    [w EXCEPT !.pf = [x \in (DOMAIN w.pf) \ {c} |-> w.pf[x]]]

log_lifecycle_event_ReplacesLastRow(w, c, pid, event_type, mgr) ==
    IF w.db_ok
    THEN LET row == [component_id |-> c, process_pid |-> pid,
                     event_type |-> event_type, manager_script |-> mgr]
         IN [w EXCEPT !.log = IF @ = <<>> THEN <<row>>
                              ELSE Append(SubSeq(@, 1, Len(@) - 1), row)]
    ELSE w

\* INSERT INTO component_lifecycle_log; sqlite3.Error is printed and swallowed.
log_lifecycle_event(w, c, pid, event_type, mgr) ==
    IF w.db_ok
    THEN [w EXCEPT !.log = Append(@, [component_id |-> c, process_pid |-> pid,
                                      event_type |-> event_type,
                                      manager_script |-> mgr])]
    ELSE w

\* subprocess.Popen alone: the child exists, its PID is Len(spawned). Popen
\* is given neither start_new_session nor preexec_fn: the child stays in the
\* process group of the manager.
subprocess_Popen(w, c, mgr) ==
    [w EXCEPT !.spawned = Append(@, [component_id |-> c, manager |-> mgr,
                                     rows_before |-> Len(w.log),
                                     pgid |-> w.pgid,
                                     launch_args |-> w.launch_args]),
              !.live = @ \cup {Len(w.spawned) + 1}]

\* subprocess.Popen followed by the write of process.pid to the PID file.
Popen(w, c, mgr) ==
    write_pid_file(subprocess_Popen(w, c, mgr), c, Len(w.spawned) + 1)

\* The process exits on its own (crash, or exit between two steps of a call).
Exit(w, pid) == [w EXCEPT !.live = @ \ {pid}]

Signal(w, pid, sig) == [w EXCEPT !.sent = Append(@, <<pid, sig>>)]

Return(w, r) == [w EXCEPT !.ret = r]

Note(w, n) == [w EXCEPT !.notes = @ \cup {n}]

\* subprocess.Popen raised: the except clause prints and nothing is written.
PopenFailed(w, c) == [w EXCEPT !.failed = @ \cup {c}]

\* ------------------------------------------------------- daemon_manager.py
get_component_status_NoProbe(w, c, in) ==
    IF c \in DOMAIN w.pf THEN "RUNNING" ELSE "STOPPED"

\* get_component_status: "RUNNING" iff the PID file exists, holds a PID and
\* the probe succeeds; anything else is "STOPPED".
get_component_status(w, c, in) ==
    IF c \in DOMAIN w.pf /\ is_process_running(w, w.pf[c], in)
    THEN "RUNNING" ELSE "STOPPED"

DM_start_component_SpawnFirst(w, c, in) ==
    IF c \notin scripts THEN w
    ELSE IF c \in DOMAIN w.pf /\ is_process_running(w, w.pf[c], in)
    THEN w
    ELSE LET w1 == IF c \in DOMAIN w.pf THEN remove_pid_file(w, c) ELSE w
         IN IF c \in in.spawn_ok
            THEN log_lifecycle_event(Popen(w1, c, DAEMON_MANAGER), c, None,
                                     "START_ATTEMPT", DAEMON_MANAGER)
            ELSE PopenFailed(log_lifecycle_event(w1, c, None, "START_ATTEMPT",
                                                 DAEMON_MANAGER), c)

\* daemon_manager.start_component
DM_start_component(w, c, in) ==
    IF c \notin scripts THEN w                                  \* line 70: skip
    ELSE IF c \in DOMAIN w.pf /\ is_process_running(w, w.pf[c], in)
    THEN w                                                      \* line 79: already running
    ELSE LET w1 == IF c \in DOMAIN w.pf THEN remove_pid_file(w, c) ELSE w   \* line 84
             w2 == log_lifecycle_event(w1, c, None, "START_ATTEMPT", DAEMON_MANAGER)
         IN IF c \in in.spawn_ok
            THEN Popen(w2, c, DAEMON_MANAGER)                    \* lines 116-120
            ELSE PopenFailed(w2, c)                             \* line 122: printed only

\* daemon_manager.stop_component: the signalling is commented out; whatever
\* the PID file holds, it is removed and nothing else happens.
DM_stop_component(w, c, in) ==
    IF c \notin DOMAIN w.pf THEN w                               \* line 131
    ELSE remove_pid_file(w, c)                                  \* lines 138, 140, 149

NM_start_component_LogErrorAborts(w, c, in) ==
    IF c \in DOMAIN w.pf /\ is_process_running(w, w.pf[c], in)
    THEN Return(w, "ok")
    ELSE IF c \notin scripts THEN Return(w, "fail")
    ELSE IF ~w.db_ok THEN Return(Note(w, "sqlite3.Error"), "fail")
    ELSE LET w2 == log_lifecycle_event(w, c, None, "START_ATTEMPT", NANO_MANAGER)
         IN IF c \in in.spawn_ok
            THEN Return(Popen(w2, c, NANO_MANAGER), "ok")
            ELSE Return(PopenFailed(w2, c), "fail")

\* nano_manager.start_component
NM_start_component(w, c, in) ==
    IF c \in DOMAIN w.pf /\ is_process_running(w, w.pf[c], in)
    THEN Return(w, "ok")                                        \* line 74
    ELSE IF c \notin scripts THEN Return(w, "fail")             \* line 79
    ELSE LET w2 == log_lifecycle_event(w, c, None, "START_ATTEMPT", NANO_MANAGER)
         IN IF c \in in.spawn_ok
            THEN Return(Popen(w2, c, NANO_MANAGER), "ok")        \* lines 101-107
            ELSE Return(PopenFailed(w2, c), "fail")             \* line 110

\* main_llm_manager.start_component: as nano_manager's, but a PID file that
\* does not name a running process is removed first (line 76).
LM_start_component(w, c, in) ==
    IF c \in DOMAIN w.pf /\ is_process_running(w, w.pf[c], in)
    THEN Return(w, "ok")
    ELSE LET w1 == IF c \in DOMAIN w.pf THEN remove_pid_file(w, c) ELSE w
         IN IF c \notin scripts THEN Return(w1, "fail")
            ELSE LET w2 == log_lifecycle_event(w1, c, None, "START_ATTEMPT",
                                               MAIN_LLM_MANAGER)
                 IN IF c \in in.spawn_ok
                    THEN Return(Popen(w2, c, MAIN_LLM_MANAGER), "ok")
                    ELSE Return(PopenFailed(w2, c), "fail")

start_component(m, w, c, in) ==
    CASE m = DAEMON_MANAGER -> DM_start_component(w, c, in)
      [] m = NANO_MANAGER -> NM_start_component(w, c, in)
      [] m = MAIN_LLM_MANAGER -> LM_start_component(w, c, in)

\* ------------------------------------------------------- manager_utils.py
stop_component_with_timeout_RaceIsError(w, c, pid, mgr, in) ==
    LET w0 == log_lifecycle_event(w, c, pid, "STOP_REQUESTED", mgr)
        w1 == IF in.race_dead THEN Exit(w0, pid) ELSE w0
    IN IF pid \notin w1.live
       THEN Return(Note(w1, "ProcessLookupError"), "fail")
       ELSE Return(log_lifecycle_event(Exit(Signal(w1, pid, "SIGTERM"), pid), c, pid,
                       "STOPPED_SUCCESSFULLY", mgr), "ok")

stop_component_with_timeout_KillsAtOnce(w, c, pid, mgr, in) ==
    LET w0 == log_lifecycle_event(w, c, pid, "STOP_REQUESTED", mgr)
        w2 == Signal(w0, pid, "SIGTERM")
        w3 == IF in.term_exits THEN Exit(w2, pid) ELSE w2
        w4 == Signal(w3, pid, "SIGKILL")
    IN Return(log_lifecycle_event(Exit(w4, pid), c, pid,
                  "STOPPED_FORCEFULLY", mgr), "ok")

stop_component_with_timeout_NoKill(w, c, pid, mgr, in) ==
    LET w0 == log_lifecycle_event(w, c, pid, "STOP_REQUESTED", mgr)
        w2 == Signal(w0, pid, "SIGTERM")
    IN IF in.term_exits
       THEN Return(log_lifecycle_event(Exit(w2, pid), c, pid,
                       "STOPPED_SUCCESSFULLY", mgr), "ok")
       ELSE Return(log_lifecycle_event(Note(w2, "timeout"), c, pid,
                       "STOP_FAILED", mgr), "fail")

stop_component_with_timeout_AlwaysTrue(w, c, pid, mgr, in) ==
    LET w0 == log_lifecycle_event(w, c, pid, "STOP_REQUESTED", mgr)
        w2 == Signal(w0, pid, "SIGTERM")
    IN IF in.term_exits
       THEN Return(log_lifecycle_event(Exit(w2, pid), c, pid,
                       "STOPPED_SUCCESSFULLY", mgr), "ok")
       ELSE Return(log_lifecycle_event(Signal(Note(w2, "timeout"), pid, "SIGKILL"),
                       c, pid, "STOPPED_FORCEFULLY", mgr), "ok")

\* stop_component_with_timeout(component_id, pid, manager_id, ...)
stop_component_with_timeout(w, c, pid, mgr, in) ==
    LET w0 == log_lifecycle_event(w, c, pid, "STOP_REQUESTED", mgr)
        \* the process may exit between the caller's probe and os.kill
        w1 == IF in.race_dead THEN Exit(w0, pid) ELSE w0
    IN IF pid \notin w1.live
       THEN Return(Note(w1, "ProcessLookupError"), "ok")         \* lines 133-136
       ELSE IF ~in.perm
       THEN Return(Note(w1, "PermissionError"), "fail")         \* lines 137-139
       ELSE
         LET w2 == Signal(w1, pid, "SIGTERM")                   \* line 97
         IN IF in.term_exits
            THEN Return(log_lifecycle_event(Exit(w2, pid), c, pid,
                            "STOPPED_SUCCESSFULLY", mgr), "ok") \* lines 103-110
            ELSE
              \* the bounded wait elapsed with the process alive at every
              \* poll; it may still exit just before the SIGKILL
              LET w3 == Note(IF in.late_exit THEN Exit(w2, pid) ELSE w2, "timeout")
              IN IF pid \notin w3.live
                 THEN Return(Note(w3, "ProcessLookupError"), "ok")
                 ELSE
                   LET w4 == Signal(w3, pid, "SIGKILL")         \* line 115
                       w5 == IF in.kill_dies THEN Exit(w4, pid) ELSE w4
                   IN IF ~is_process_running(w5, pid, in)       \* line 118
                      THEN Return(log_lifecycle_event(w5, c, pid,
                                      "STOPPED_FORCEFULLY", mgr), "ok")
                      ELSE Return(log_lifecycle_event(w5, c, pid,
                                      "STOP_FAILED", mgr), "fail")

stop_component_KeepsStaleFile(m, w, c, in) ==
    LET pid == read_pid_file(w, c)
    IN IF pid = None \/ ~is_process_running(w, pid, in)
       THEN Return(log_lifecycle_event(w, c, pid, "STOPPED_SUCCESSFULLY", m), "ok")
       ELSE LET w1 == stop_component_with_timeout(w, c, pid, m, in)
            IN IF w1.ret = "ok" THEN remove_pid_file(w1, c) ELSE w1

stop_component_AlwaysRemoves(m, w, c, in) ==
    LET pid == read_pid_file(w, c)
    IN IF pid = None \/ ~is_process_running(w, pid, in)
       THEN Return(remove_pid_file(
                     log_lifecycle_event(w, c, pid, "STOPPED_SUCCESSFULLY", m), c),
                   "ok")
       ELSE remove_pid_file(stop_component_with_timeout(w, c, pid, m, in), c)

\* nano_manager.stop_component and main_llm_manager.stop_component (same text)
stop_component(m, w, c, in) ==
    LET pid == read_pid_file(w, c)
    IN IF pid = None \/ ~is_process_running(w, pid, in)
       THEN Return(remove_pid_file(
                     log_lifecycle_event(w, c, pid, "STOPPED_SUCCESSFULLY", m), c),
                   "ok")
       ELSE LET w1 == stop_component_with_timeout(w, c, pid, m, in)
            IN IF w1.ret = "ok" THEN remove_pid_file(w1, c) ELSE w1

\* ------------------------------------------- ensure_autorun_components_active
\* SELECT ... WHERE manager_affinity = ? AND desired_state = 'active'
components_to_manage(m) ==
    SelectSeq(Rows, LAMBDA c : manager_affinity(c) = m /\ desired_state(c) = "active")

\* launch_args as the callers of start_component build it from
\* launch_args_json: the flags and values of a JSON object, and nothing for
\* '{}' and for a value json.loads rejects.
launch_args_list(c) ==
    IF launch_args_json(c) = "object" THEN <<"--flag", "value">> ELSE <<>>

\* The body of the for loop. json.loads of a value that is not JSON raises
\* JSONDecodeError: a WARNING is printed and start_component is called with
\* no launch arguments. A value that parses to something other than a dict
\* raises AttributeError at args_dict.items(), which nothing catches: it
\* leaves the loop and the function.
RECURSIVE autorun_loop(_, _, _, _)
autorun_loop(m, w, rows, in) ==
    IF rows = <<>> THEN w
    ELSE LET c == Head(rows)
         IN IF get_component_status(w, c, in) = "RUNNING"
            THEN autorun_loop(m, w, Tail(rows), in)
            ELSE IF launch_args_json(c) = "not_object"
            THEN Return(Note(w, "AttributeError"), "raised")
            ELSE LET w0 == IF launch_args_json(c) = "not_json"
                           THEN [w EXCEPT !.warned = @ \cup {c}] ELSE w
                     w1 == [w0 EXCEPT !.launch_args = launch_args_list(c)]
                 IN autorun_loop(m, start_component(m, w1, c, in), Tail(rows), in)

ensure_autorun_components_active(m, w, in) ==
    LET w1 == autorun_loop(m, w, components_to_manage(m), in)
    IN IF "AttributeError" \in w1.notes THEN Return(w1, "raised")
       ELSE Return(w1, "none")

\* ------------------------------------------------ daemon_manager.py __main__
\* Component selection of the CLI (lines 234-259): all_managed selects the
\* rows of this manager, a component id is accepted only if this manager
\* owns it; otherwise the script exits with status 1 before acting.
CliTargets == Components \cup {"all_managed"}

components_to_act_on_AnyOwner(m, target) ==
    IF target = "all_managed"
    THEN SelectSeq(Rows, LAMBDA c : manager_affinity(c) = m)
    ELSE IF target \in Components THEN <<target>> ELSE <<>>

components_to_act_on(m, target) ==
    IF target = "all_managed"
    THEN SelectSeq(Rows, LAMBDA c : manager_affinity(c) = m)
    ELSE IF target \in Components /\ manager_affinity(target) = m
         THEN <<target>> ELSE <<>>

CliActions == {"status", "stop", "start", "reset"}

DM_cli_one(w, action, c, in) ==
    CASE action = "status" -> w
      [] action = "stop" -> DM_stop_component(w, c, in)
      [] action = "start" ->
            DM_start_component([w EXCEPT !.launch_args = launch_args_list(c)], c, in)
      [] action = "reset" ->
            DM_start_component([DM_stop_component(w, c, in)
                                   EXCEPT !.launch_args = launch_args_list(c)], c, in)

RECURSIVE DM_cli_loop(_, _, _, _)
DM_cli_loop(w, action, rows, in) ==
    IF rows = <<>> THEN w
    ELSE DM_cli_loop(DM_cli_one(w, action, Head(rows), in), action, Tail(rows), in)

DM_main(w, action, target, in) ==
    DM_cli_loop(w, action, components_to_act_on(DAEMON_MANAGER, target), in)

\* ------------------------------- manager_utils.py: PID files as text
\* The characters a PID file may hold: the decimal digits, the signs, the
\* underscore, two whitespace characters and a letter.
Digits == <<"0", "1", "2", "3", "4", "5", "6", "7", "8", "9">>
Whitespace == {" ", "\n"}
Chars == {Digits[i] : i \in 1..10} \cup Whitespace \cup {"-", "+", "_", "a"}

IsDigit(ch) == \E i \in 1..10 : Digits[i] = ch
DigitValue(ch) == (CHOOSE i \in 1..10 : Digits[i] = ch) - 1

\* str.strip(): leading and trailing whitespace removed.
RECURSIVE lstrip(_)
lstrip(t) == IF t # <<>> /\ Head(t) \in Whitespace THEN lstrip(Tail(t)) ELSE t

RECURSIVE rstrip(_)
rstrip(t) ==
    IF t # <<>> /\ t[Len(t)] \in Whitespace THEN rstrip(SubSeq(t, 1, Len(t) - 1)) ELSE t

strip(t) == rstrip(lstrip(t))

\* The results of a Python call: a value, None, or an exception raised.
Value(v) == [kind |-> "value", value |-> v]
PyNone == [kind |-> "None", value |-> 0]
Raised(e) == [kind |-> e, value |-> 0]

\* The digits of int(): digit (["_"] digit)*, scanned from the left with the
\* value read so far; after_digit says that the last character was a digit.
RECURSIVE int_digits(_, _, _)
int_digits(t, acc, after_digit) ==
    IF t = <<>> THEN (IF after_digit THEN Value(acc) ELSE Raised("ValueError"))
    ELSE IF IsDigit(Head(t))
    THEN int_digits(Tail(t), 10 * acc + DigitValue(Head(t)), TRUE)
    ELSE IF Head(t) = "_" /\ after_digit
    THEN int_digits(Tail(t), acc, FALSE)
    ELSE Raised("ValueError")

\* int(s) for a str s, base 10: surrounding whitespace is ignored, one sign
\* is allowed, single underscores may separate digits; ValueError otherwise.
int(t) ==
    LET u == strip(t)
    IN IF u = <<>> THEN Raised("ValueError")
       ELSE IF Head(u) = "-"
       THEN LET r == int_digits(Tail(u), 0, FALSE)
            IN IF r.kind = "value" THEN Value(0 - r.value) ELSE r
       ELSE IF Head(u) = "+" THEN int_digits(Tail(u), 0, FALSE)
       ELSE int_digits(u, 0, FALSE)

\* str(n) for an int n: the decimal digits, after a "-" if n is negative.
RECURSIVE str_nat(_)
str_nat(n) ==
    IF n < 10 THEN <<Digits[n + 1]>>
    ELSE Append(str_nat(n \div 10), Digits[(n % 10) + 1])

str(n) == IF n < 0 THEN <<"-">> \o str_nat(0 - n) ELSE str_nat(n)

read_pid_file_text_NoExcept(file) ==
    IF ~file.exists THEN PyNone
    ELSE LET pid_str == strip(file.text)
         IN IF pid_str # <<>> THEN int(pid_str) ELSE PyNone

\* read_pid_file(pid_file), on the text of the file.
read_pid_file_text(file) ==
    IF ~file.exists THEN PyNone                                  \* lines 45-46
    ELSE LET pid_str == strip(file.text)                         \* line 50
             r == IF pid_str # <<>> THEN int(pid_str) ELSE PyNone \* line 51
         IN IF r.kind = "ValueError" THEN PyNone ELSE r          \* lines 52-53

\* write_pid_file(pid_file, pid): the file holds str(pid) and True is
\* returned; when open() fails nothing is written and False is returned.
write_pid_file_text(file, pid, io_ok) ==
    IF io_ok THEN [file |-> [exists |-> TRUE, text |-> str(pid)], ret |-> TRUE]
    ELSE [file |-> file, ret |-> FALSE]

\* ------------------------------------------------- boot_system_enhanced.py
\* MANAGER_CONFIG: the manager scripts in the order of the dict, and the
\* ones marked 'critical': True.
ManagerOrder == <<DAEMON_MANAGER, NANO_MANAGER, MAIN_LLM_MANAGER>>
DefaultCritical == {DAEMON_MANAGER, NANO_MANAGER}

\* config.json may override MANAGER_CONFIG (load_configuration).
CriticalConfigs == {DefaultCritical, {NANO_MANAGER}}

\* component_id of the rows log_manager_event writes: f"boot_{manager_script}".
boot_component_id(m) ==
    CASE m = DAEMON_MANAGER -> "boot_daemon_manager.py"
      [] m = NANO_MANAGER -> "boot_nano_manager.py"
      [] m = MAIN_LLM_MANAGER -> "boot_main_llm_manager.py"

\* A subprocess.Popen handle of manager m is the generation of the process:
\* 1, 2, 1, ... so that a relaunched process differs from the one it replaces.
NextGen(g) == IF g = 1 THEN 2 ELSE 1

\* The status sys.exit was called with; NoExit while the orchestrator runs.
NoExit == "-"
Exit0 == "sys.exit(0)"
Exit1 == "sys.exit(1)"

\* The world of one step of the orchestrator.
\*   sent       the signals sent to the groups of managers: <<manager, signal>>
\*   comp_sent  the component processes those signals reached: <<pid, signal>>
\*   ret   what launch_manager returned: a handle, or None
\*   exit  the status sys.exit was called with, if it was called
BootWorld ==
    [tracked |-> launched_managers, procs |-> mgr_proc,
     log |-> component_lifecycle_log, db_ok |-> db_writable,
     spawned |-> spawned, live |-> live,
     sent |-> <<>>, comp_sent |-> <<>>,
     ret |-> None, exit |-> NoExit, launches |-> 0]

\* What the operating system decides during one step of the orchestrator.
\*   outcome     of launch_manager: "ok", "no_script" (script file missing),
\*               "spawn_error" (an exception in the try block around Popen)
\*   term_exits  the managers that exit within the 30 s after SIGTERM
BootInputs ==
    {[outcome |-> o, term_exits |-> t] :
        o \in {"ok", "no_script", "spawn_error"}, t \in SUBSET Managers}

log_manager_event(b, m, pid, event_type) ==
    IF b.db_ok
    THEN [b EXCEPT !.log = Append(@, [component_id |-> boot_component_id(m),
                                      process_pid |-> pid,
                                      event_type |-> event_type,
                                      manager_script |-> "boot_system.py"])]
    ELSE b

\* The live component processes in the process group of the tracked process
\* of manager m, in PID order.
GroupMembers(b, m) ==
    SelectSeq([p \in 1..Len(b.spawned) |-> p],
              LAMBDA p : /\ p \in b.live
                         /\ b.spawned[p].pgid = ManagerGroup(m, b.procs[m].gen))

\* os.killpg(os.getpgid(process.pid), sig): a tracked handle is running or a
\* zombie not yet polled, so the call succeeds and the signal is delivered
\* to every process of the group. No component script installs a handler
\* for SIGTERM, so a component the signal reaches is terminated by it.
killpg(b, m, sig) ==
    LET members == GroupMembers(b, m)
    IN [b EXCEPT !.sent = Append(@, <<m, sig>>),
                 !.comp_sent = @ \o [i \in 1..Len(members) |-> <<members[i], sig>>],
                 !.live = @ \ {members[i] : i \in 1..Len(members)}]

\* First loop of shutdown_all_managers: SIGTERM and MANAGER_SHUTDOWN_REQUESTED
\* for every tracked manager.
RECURSIVE send_sigterm(_, _)
send_sigterm(b, ms) ==
    IF ms = <<>> THEN b
    ELSE LET m == Head(ms)
         IN send_sigterm(log_manager_event(killpg(b, m, "SIGTERM"), m, b.procs[m].gen,
                                           "MANAGER_SHUTDOWN_REQUESTED"),
                         Tail(ms))

\* The wait loop: a manager whose process has exited is logged MANAGER_STOPPED
\* and deleted from launched_managers.
RECURSIVE wait_for_exit(_, _)
wait_for_exit(b, ms) ==
    IF ms = <<>> THEN b
    ELSE LET m == Head(ms)
         IN IF b.procs[m].status # "running"
            THEN wait_for_exit(
                   [log_manager_event(b, m, b.procs[m].gen, "MANAGER_STOPPED")
                      EXCEPT !.tracked = SelectSeq(@, LAMBDA x : x # m)],
                   Tail(ms))
            ELSE wait_for_exit(b, Tail(ms))

\* Last loop: SIGKILL for every manager still in launched_managers.
RECURSIVE force_kill(_, _)
force_kill(b, ms) ==
    IF ms = <<>> THEN b
    ELSE LET m == Head(ms)
         IN force_kill([killpg(b, m, "SIGKILL") EXCEPT !.procs[m].status = "killed"],
                       Tail(ms))

shutdown_all_managers_NoForce(b, in) ==
    IF b.tracked = <<>> THEN b
    ELSE LET b1 == send_sigterm(b, b.tracked)
             b2 == [b1 EXCEPT !.procs =
                       [m \in Managers |->
                          IF /\ \E i \in 1..Len(b.tracked) : b.tracked[i] = m
                             /\ b.procs[m].status = "running"
                             /\ m \in in.term_exits
                          THEN [b.procs[m] EXCEPT !.status = "terminated"]
                          ELSE b.procs[m]]]
         IN wait_for_exit(b2, b2.tracked)

shutdown_all_managers_KillAll(b, in) ==
    IF b.tracked = <<>> THEN b
    ELSE force_kill(send_sigterm(b, b.tracked), b.tracked)

\* BootSystem.shutdown_all_managers
shutdown_all_managers(b, in) ==
    IF b.tracked = <<>> THEN b                                   \* line 257
    ELSE LET b1 == send_sigterm(b, b.tracked)                    \* lines 263-269
             \* the running managers that react to SIGTERM in time exit
             b2 == [b1 EXCEPT !.procs =
                       [m \in Managers |->
                          IF /\ \E i \in 1..Len(b.tracked) : b.tracked[i] = m
                             /\ b.procs[m].status = "running"
                             /\ m \in in.term_exits
                          THEN [b.procs[m] EXCEPT !.status = "terminated"]
                          ELSE b.procs[m]]]
             b3 == wait_for_exit(b2, b2.tracked)                 \* lines 276-283
         IN force_kill(b3, b3.tracked)                           \* lines 286-293

\* preexec_fn=os.setsid: the new manager process leads a new group, which no
\* earlier process is a member of.
Setsid(procs, m, g) ==
    [p \in 1..Len(procs) |->
        IF procs[p].pgid = ManagerGroup(m, g)
        THEN [procs[p] EXCEPT !.pgid = OldGroup] ELSE procs[p]]

launch_manager_AbsorbsAll(b, m, in) ==
    CASE in.outcome = "no_script" -> [b EXCEPT !.ret = None]
      [] in.outcome = "ok" ->
            LET g == NextGen(b.procs[m].gen)
            IN log_manager_event(
                 [b EXCEPT !.procs[m] = [gen |-> g, status |-> "running"],
                           !.spawned = Setsid(@, m, g),
                           !.ret = g, !.launches = @ + 1],
                 m, g, "MANAGER_STARTED")
      [] in.outcome = "spawn_error" -> [b EXCEPT !.ret = None]

\* BootSystem.launch_manager
launch_manager(b, m, in) ==
    CASE in.outcome = "no_script" -> [b EXCEPT !.ret = None]      \* line 142
      [] in.outcome = "ok" ->                                    \* lines 157-170
            LET g == NextGen(b.procs[m].gen)
            IN log_manager_event(
                 [b EXCEPT !.procs[m] = [gen |-> g, status |-> "running"],
                           !.spawned = Setsid(@, m, g),
                           !.ret = g, !.launches = @ + 1],
                 m, g, "MANAGER_STARTED")
      [] in.outcome = "spawn_error" ->                           \* lines 172-178
            IF m \in boot.critical
            THEN [shutdown_all_managers(b, in) EXCEPT !.ret = None, !.exit = Exit1]
            ELSE [b EXCEPT !.ret = None]

\* One iteration of the launch loop of BootSystem.run, and after the last
\* one the test that any manager was launched.
run_launch(b, i, in) ==
    LET m == ManagerOrder[i]
        b1 == launch_manager(b, m, in)
        b2 == IF b1.ret # None THEN [b1 EXCEPT !.tracked = Append(@, m)] ELSE b1
    IN IF b1.exit # NoExit THEN b1
       ELSE IF i = Len(ManagerOrder) /\ b2.tracked = <<>>
       THEN [b2 EXCEPT !.exit = Exit1]                           \* line 346
       ELSE b2

check_and_restart_RestartsAll(b, m, in) ==
    LET b1 == log_manager_event(b, m, b.procs[m].gen, "MANAGER_CRASHED")
        b2 == [b1 EXCEPT !.tracked = SelectSeq(@, LAMBDA x : x # m)]
        b3 == launch_manager(b2, m, in)
    IN IF b3.exit # NoExit THEN b3
       ELSE IF b3.ret # None THEN [b3 EXCEPT !.tracked = Append(@, m)]
       ELSE b3

check_and_restart_KeepsOldHandle(b, m, in) ==
    IF m \in boot.critical
    THEN log_manager_event(b, m, b.procs[m].gen, "MANAGER_CRASHED")
    ELSE [b EXCEPT !.tracked = SelectSeq(@, LAMBDA x : x # m)]

\* The body of the loop of monitor_managers for a tracked manager whose
\* process has exited (check_manager_health returned False).
check_and_restart(b, m, in) ==
    IF m \in boot.critical
    THEN LET b1 == log_manager_event(b, m, b.procs[m].gen, "MANAGER_CRASHED")
             b2 == [b1 EXCEPT !.tracked = SelectSeq(@, LAMBDA x : x # m)] \* line 235
             b3 == launch_manager(b2, m, in)
         IN IF b3.exit # NoExit THEN b3
            ELSE IF b3.ret # None
            THEN [b3 EXCEPT !.tracked = Append(@, m)]             \* line 239
            ELSE b3
    ELSE [b EXCEPT !.tracked = SelectSeq(@, LAMBDA x : x # m)]    \* line 245

\* BootSystem.cleanup: the boot PID file is removed if it exists.
cleanup(bt) == [bt EXCEPT !.pid_file = FALSE]

\* _signal_handler: shutdown_all_managers, cleanup, sys.exit(0).
signal_handler(b, in) ==
    [shutdown_all_managers(b, in) EXCEPT !.exit = Exit0]

\* ----------------------------------------------------------------- actions
NoOp(op) ==
    [op |-> op, mgr |-> "-", target |-> "-", perm |-> TRUE, ret |-> "none",
     sent |-> <<>>, failed |-> {}, notes |-> {}, warned |-> {}, db_ok |-> TRUE,
     pre_pf |-> [c \in {} |-> None], pre_live |-> {},
     pre_spawned |-> 0, pre_log |-> 0]

\* The permission input is consulted only when a probed PID file names an
\* existing process; where it is not consulted it is fixed at TRUE.
PermConsulted(targets, in) ==
    in.perm \/ \E c \in targets : c \in DOMAIN pid_files /\ pid_files[c] \in live

SeqToSet(q) == {q[i] : i \in 1..Len(q)}

\* The state a call leaves behind, and the record of the call.
CommitState(op, m, target, in, w) ==
    /\ pid_files' = w.pf
    /\ spawned' = w.spawned
    /\ live' = w.live
    /\ component_lifecycle_log' = w.log
    /\ lastOp' = [op |-> op, mgr |-> m, target |-> target, perm |-> in.perm,
                  ret |-> w.ret, sent |-> w.sent,
                  failed |-> w.failed, notes |-> w.notes,
                  warned |-> w.warned, db_ok |-> w.db_ok,
                  pre_pf |-> pid_files, pre_live |-> live,
                  pre_spawned |-> Len(spawned),
                  pre_log |-> Len(component_lifecycle_log)]

\* Commit the world a call produced and remember the call.
Commit(op, m, target, in, w) ==
    /\ Len(w.log) <= MaxLog
    /\ Len(w.spawned) <= MaxLog
    /\ CommitState(op, m, target, in, w)
    /\ UNCHANGED <<autorun_components, db_writable, scripts>>
    /\ UNCHANGED <<bootVars, pidTextVars, llmVars, stepVars>>

\* One reconciliation pass of manager m ("autorun").
Autorun(m) ==
    \E in \in StartInputs(SeqToSet(components_to_manage(m))) :
        /\ PermConsulted(SeqToSet(components_to_manage(m)), in)
        /\ Commit("autorun", m, "-", in, ensure_autorun_components_active(m, World, in))

\* python daemon_manager.py <action> <component_id | all_managed>
DaemonManagerCli ==
    \E action \in CliActions, target \in CliTargets :
    \E in \in StartInputs(IF action \in {"start", "reset"}
                          THEN SeqToSet(components_to_act_on(DAEMON_MANAGER, target))
                          ELSE {}) :
        /\ IF action = "start"
           THEN PermConsulted(SeqToSet(components_to_act_on(DAEMON_MANAGER, target)), in)
           ELSE in.perm
        /\ Commit(action, DAEMON_MANAGER, target, in, DM_main(World, action, target, in))

\* stop_component(component_id) of nano_manager / main_llm_manager, on a
\* component of that manager.
StopComponent(m) ==
    \E c \in Components, in \in StopInputs :
        /\ m \in {NANO_MANAGER, MAIN_LLM_MANAGER}
        /\ manager_affinity(c) = m
        /\ PermConsulted({c}, in)
        /\ Commit("stop_component", m, c, in, stop_component(m, World, c, in))

\* A component process exits on its own.
ProcessExits ==
    \E pid \in live :
        /\ live' = live \ {pid}
        /\ lastOp' = NoOp("env")
        /\ UNCHANGED <<autorun_components, db_writable, scripts, pid_files,
                       spawned, component_lifecycle_log>>
        /\ UNCHANGED <<bootVars, pidTextVars, llmVars, stepVars>>

\* n0m1_control.py enable / disable <component_id>
SetDesiredState ==
    \E c \in Components, s \in {"active", "inactive"} :
        /\ desired_state(c) # s
        /\ autorun_components' = [autorun_components EXCEPT ![c].desired_state = s]
        /\ lastOp' = NoOp("env")
        /\ UNCHANGED <<db_writable, scripts, pid_files, spawned, live,
                       component_lifecycle_log>>
        /\ UNCHANGED <<bootVars, pidTextVars, llmVars, stepVars>>

\* ------------------------------------------------- the boot orchestrator
NoBootOp(op) ==
    [op |-> op, mgr |-> "-", outcome |-> "-", term_exits |-> {},
     sent |-> <<>>, comp_sent |-> <<>>, launches |-> 0,
     pre_tracked |-> <<>>, pre_procs |-> mgr_proc, pre_log |-> 0, pre_pc |-> "-"]

\* Commit the world a step of the orchestrator produced and remember the step.
BootCommit(op, m, in, b) ==
    /\ Len(b.log) <= MaxBootLog
    /\ launched_managers' = b.tracked
    /\ mgr_proc' = b.procs
    /\ component_lifecycle_log' = b.log
    /\ bootOp' = [op |-> op, mgr |-> m, outcome |-> in.outcome,
                  term_exits |-> in.term_exits, sent |-> b.sent,
                  comp_sent |-> b.comp_sent,
                  launches |-> b.launches,
                  pre_tracked |-> launched_managers, pre_procs |-> mgr_proc,
                  pre_log |-> Len(component_lifecycle_log), pre_pc |-> boot.pc]
    /\ live' = b.live
    /\ spawned' = b.spawned
    /\ lastOp' = NoOp("env")
    /\ UNCHANGED <<autorun_components, db_writable, scripts, pid_files>>
    /\ UNCHANGED <<pidTextVars, llmVars, stepVars>>

\* The outcome is consulted only when launch_manager is called, term_exits
\* only for the tracked managers that are running when SIGTERM is sent.
BootInputsConsulted(in, launches, shuts) ==
    /\ launches \/ in.outcome = "ok"
    /\ in.term_exits \subseteq
         IF shuts /\ (~launches \/ in.outcome = "spawn_error")
         THEN {m \in Managers : /\ \E i \in 1..Len(launched_managers) :
                                      launched_managers[i] = m
                                 /\ mgr_proc[m].status = "running"}
         ELSE {}

\* BootSystem.run, lines 335-346: launch the next manager of MANAGER_CONFIG.
BootLaunchWith(inputs) ==
    \E in \in inputs :
        LET m == ManagerOrder[boot.i]
            b == run_launch(BootWorld, boot.i, in)
        IN /\ boot.pc = "launching"
           /\ BootInputsConsulted(in, TRUE, m \in boot.critical)
           /\ BootCommit("launch", m, in, b)
           /\ boot' = IF b.exit # NoExit
                      THEN [boot EXCEPT !.pc = "exited", !.code = b.exit]
                      ELSE IF boot.i = Len(ManagerOrder)
                      THEN [boot EXCEPT !.pc = "monitoring"]
                      ELSE [boot EXCEPT !.i = @ + 1]

\* monitor_managers: the health check of tracked manager m finds its process
\* exited. (A check that finds it running changes nothing.)
BootHealthCheckWith(m, inputs) ==
    \E in \in inputs :
        LET b == check_and_restart(BootWorld, m, in)
        IN /\ boot.pc = "monitoring"
           /\ \E i \in 1..Len(launched_managers) : launched_managers[i] = m
           /\ mgr_proc[m].status # "running"
           /\ BootInputsConsulted(in, m \in boot.critical, m \in boot.critical)
           /\ BootCommit("health_check", m, in, b)
           /\ boot' = IF b.exit # NoExit
                      THEN [boot EXCEPT !.pc = "exited", !.code = b.exit]
                      ELSE boot

\* SIGTERM or SIGINT reaches the orchestrator: _signal_handler.
BootSignal ==
    \E in \in BootInputs :
        LET b == signal_handler(BootWorld, in)
        IN /\ boot.pc \in {"launching", "monitoring"}
           /\ BootInputsConsulted(in, FALSE, TRUE)
           /\ BootCommit("signal", "-", in, b)
           /\ boot' = cleanup([boot EXCEPT !.pc = "exited", !.code = b.exit])

\* The process of manager m, launched with the argument 'autorun', runs its
\* __main__: one call of ensure_autorun_components_active, then the script
\* ends (an uncaught exception ends it too).
ManagerRunsWith(m, inputs) ==
    \E in \in inputs :
        LET w == ensure_autorun_components_active(
                     m, [World EXCEPT !.pgid = ManagerGroup(m, mgr_proc[m].gen)], in)
        IN /\ mgr_proc[m].status = "running"
           /\ PermConsulted(SeqToSet(components_to_manage(m)), in)
           /\ Len(w.log) <= MaxBootLog
           /\ Len(w.spawned) <= MaxLog
           /\ CommitState("autorun", m, "-", in, w)
           /\ mgr_proc' = [mgr_proc EXCEPT ![m].status = "finished"]
           /\ bootOp' = NoBootOp("env")
           /\ UNCHANGED <<pidTextVars, llmVars, stepVars>>
           /\ UNCHANGED <<autorun_components, db_writable, scripts, boot,
                          launched_managers>>

BootLaunch == BootLaunchWith(BootInputs)

BootHealthCheck(m) == BootHealthCheckWith(m, BootInputs)

ManagerRuns(m) == ManagerRunsWith(m, StartInputs(SeqToSet(components_to_manage(m))))

\* The start sequences explored, and one that has not begun.
Starters == 1..MaxStarts
NotStarted ==
    [pc |-> "idle", entry |-> "-", component_id |-> "-", pid |-> None, began_after |-> {}]

\* No start sequence is followed step by step.
StepsIdle == starts = [s \in Starters |-> NotStarted]

\* The managers see a component as an opaque process and a PID file as the
\* PID it holds: the tables of the llm daemons and the text of a PID file
\* play no part in the specifications of the managers and stay as they are.
WorkersIdle ==
    /\ pid_file_text = [exists |-> FALSE, text |-> <<>>]
    /\ pidOp = [op |-> "-"]
    /\ llm_io_config = [read_tables |-> <<>>, output_table |-> "-", needs_reload |-> 0]
    /\ llm_notifications = <<>>
    /\ llm_outputs = <<>>
    /\ daemons = [last_id |-> 0]
    /\ llmOp = [op |-> "-"]
    /\ StepsIdle

\* The orchestrator is not running (and neither are the llm daemons).
BootIdle ==
    /\ boot = [pc |-> "off", i |-> 1, code |-> NoExit, critical |-> DefaultCritical,
               pid_file |-> FALSE, process |-> "-"]
    /\ launched_managers = <<>>
    /\ mgr_proc = [m \in Managers |-> [gen |-> 0, status |-> "none"]]
    /\ bootOp = NoBootOp("env")
    /\ WorkersIdle

\* Nothing has been started yet: no PID file, no process, an empty log.
InitEnv ==
    /\ scripts \in {Components, Components \ {"system_metrics_daemon"}}
    /\ pid_files = [c \in {} |-> None]
    /\ spawned = <<>>
    /\ live = {}
    /\ component_lifecycle_log = <<>>
    /\ lastOp = NoOp("env")

\* The registry as init_database.py populates it.
Init ==
    /\ \E installed \in Installations :
          autorun_components =
              [c \in installed |-> [manager_affinity |-> default_manager_affinity(c),
                                    desired_state |-> default_desired_state(c),
                                    launch_args_json |-> default_launch_args_json(c)]]
    /\ db_writable = TRUE
    /\ InitEnv
    /\ BootIdle

Next ==
    \/ DaemonManagerCli
    \/ Autorun(DAEMON_MANAGER)
    \/ Autorun(NANO_MANAGER)
    \/ Autorun(MAIN_LLM_MANAGER)
    \/ StopComponent(NANO_MANAGER)
    \/ StopComponent(MAIN_LLM_MANAGER)
    \/ ProcessExits
    \/ SetDesiredState

Spec == Init /\ [][Next]_vars

\* ------------------------------------------- malformed launch_args_json
\* The registry after launch_args_json of its rows was edited by hand: any
\* row may hold any kind of value.
ArgsInit ==
    /\ \E installed \in Installations :
       \E args \in [installed -> ArgsKinds] :
          autorun_components =
              [c \in installed |-> [manager_affinity |-> default_manager_affinity(c),
                                    desired_state |-> default_desired_state(c),
                                    launch_args_json |-> args[c]]]
    /\ db_writable = TRUE
    /\ InitEnv
    /\ BootIdle

ArgsNext ==
    \/ Autorun(DAEMON_MANAGER)
    \/ Autorun(NANO_MANAGER)
    \/ Autorun(MAIN_LLM_MANAGER)
    \/ ProcessExits
    \/ SetDesiredState

ArgsSpec == ArgsInit /\ [][ArgsNext]_vars

\* ------------------------------------------------ failing database writes
\* The installations explored with a failing database: one component of each
\* manager.
StorageInstallations ==
    {{"temp_main_daemon", "nano_analyzer_01"}, {"main_llm_processor"}}

\* As Init, with a database that may refuse every write (full or locked).
StorageInit ==
    /\ \E installed \in StorageInstallations :
          autorun_components =
              [c \in installed |-> [manager_affinity |-> default_manager_affinity(c),
                                    desired_state |-> default_desired_state(c),
                                    launch_args_json |-> default_launch_args_json(c)]]
    /\ db_writable \in BOOLEAN
    /\ InitEnv
    /\ BootIdle

StorageSpec == StorageInit /\ [][Next]_vars

\* ------------------------------------------------ PID files on disk
RECURSIVE Texts(_)
Texts(n) ==
    IF n = 0 THEN {<<>>}
    ELSE Texts(n - 1) \cup {Append(t, ch) : t \in {x \in Texts(n - 1) : Len(x) = n - 1},
                                           ch \in Chars}

UnchangedButPidText ==
    UNCHANGED <<autorun_components, db_writable, scripts, pid_files, spawned, live,
                component_lifecycle_log, lastOp, bootVars, llmVars, stepVars>>

\* A call of read_pid_file on the file.
ReadPidFile ==
    /\ pidOp' = [op |-> "read", file |-> pid_file_text, by_write |-> pidOp.by_write,
                 pid |-> pidOp.pid, ret |-> read_pid_file_text(pid_file_text)]
    /\ UNCHANGED pid_file_text
    /\ UnchangedButPidText

\* The PIDs handed to write_pid_file; the last one is the largest PID of Linux.
WritePids == ((0 - 2)..MaxPid) \cup {99, 100, 32768, 4194304}

\* A call of write_pid_file on the file.
WritePidFile ==
    \E pid \in WritePids, io_ok \in BOOLEAN :
        LET r == write_pid_file_text(pid_file_text, pid, io_ok)
        IN /\ pid_file_text' = r.file
           /\ pidOp' = [op |-> "write", file |-> r.file,
                        by_write |-> IF r.ret THEN TRUE ELSE pidOp.by_write,
                        pid |-> IF r.ret THEN pid ELSE pidOp.pid,
                        ret |-> IF r.ret THEN Value(1) ELSE Value(0)]
           /\ UnchangedButPidText

\* Something else than write_pid_file leaves the file missing or with any
\* text. pidOp.by_write says that the text is the one write_pid_file wrote,
\* pidOp.pid which PID it was given.
PidTextInit ==
    /\ autorun_components =
          [c \in ComponentIds |-> [manager_affinity |-> default_manager_affinity(c),
                                   desired_state |-> default_desired_state(c),
                                   launch_args_json |-> default_launch_args_json(c)]]
    /\ db_writable = TRUE
    /\ scripts = ComponentIds
    /\ pid_files = [c \in {} |-> None]
    /\ spawned = <<>>
    /\ live = {}
    /\ component_lifecycle_log = <<>>
    /\ lastOp = NoOp("env")
    /\ boot = [pc |-> "off", i |-> 1, code |-> NoExit, critical |-> DefaultCritical,
               pid_file |-> FALSE, process |-> "-"]
    /\ launched_managers = <<>>
    /\ mgr_proc = [m \in Managers |-> [gen |-> 0, status |-> "none"]]
    /\ bootOp = NoBootOp("env")
    /\ \E t \in Texts(MaxTextLen), e \in BOOLEAN :
          pid_file_text = [exists |-> e, text |-> IF e THEN t ELSE <<>>]
    /\ pidOp = [op |-> "-", file |-> pid_file_text, by_write |-> FALSE, pid |-> 0,
                ret |-> PyNone]
    /\ llm_io_config = [read_tables |-> <<>>, output_table |-> "-", needs_reload |-> 0]
    /\ llm_notifications = <<>>
    /\ llm_outputs = <<>>
    /\ daemons = [last_id |-> 0]
    /\ llmOp = [op |-> "-"]
    /\ StepsIdle

PidTextNext ==
    \/ ReadPidFile
    \/ WritePidFile

PidTextSpec == PidTextInit /\ [][PidTextNext]_vars

\* ------------------------------------------------------- the llm daemons
\* llm_command_daemon.py, llm_config_daemon.py and llm_processor.py talk
\* through three tables. A TEXT value is the sequence of its pieces: 'CMD:',
\* 'START', a blank, a name, a comma, ' rows=', a digit. Prefix tests, strip()
\* and split(',') work on the pieces as Python works on the characters. The
\* registry of these daemons is keyed by the text of component_id.
\* str.startswith
startswith(text, prefix) ==
    /\ Len(text) >= Len(prefix)
    /\ SubSeq(text, 1, Len(prefix)) = prefix

\* 'CMD:' and 'CMD:START ' (llm_command_daemon.py:20, 57).
CMD == <<"CMD:">>
CMD_START == <<"CMD:", "START", " ">>

\* Python's truth value of a TEXT column: NULL and '' are false.
Truthy(v) == v.kind = "value" /\ v.value # <<>>

\* text.split(',')
RECURSIVE split_from(_, _)
split_from(t, cur) ==
    IF t = <<>> THEN <<cur>>
    ELSE IF Head(t) = "," THEN <<cur>> \o split_from(Tail(t), <<>>)
    ELSE split_from(Tail(t), Append(cur, Head(t)))

split(t) == split_from(t, <<>>)

\* [t.strip() for t in text.split(',') if t.strip()]
table_list(text) ==
    LET parts == split(text)
        stripped == [i \in 1..Len(parts) |-> strip(parts[i])]
    IN SelectSeq(stripped, LAMBDA t : t # <<>>)

\* The rows of system_metrics_log, a table the daemons only count.
SystemMetricsRows == 2

\* The database and the loop variables of the daemons during one poll;
\* handled, wrote and access collect what the poll did.
LlmWorld ==
    [autorun_components |-> autorun_components,
     llm_io_config |-> llm_io_config,
     llm_notifications |-> llm_notifications,
     llm_outputs |-> llm_outputs,
     daemons |-> daemons,
     handled |-> <<>>,
     wrote |-> <<>>,
     access |-> <<>>]

\* manager_utils.log_db_access: one row of db_access_log; a failure to
\* write it is reported and not raised.
log_db_access(w, component_id, table, access_type) ==
    [w EXCEPT !.access = Append(@, <<component_id, table, access_type>>)]

\* SELECT COUNT(*) FROM {table}; a table that does not exist raises
\* sqlite3.Error. The statement sees the rows its own connection inserted.
count_rows(w, table) ==
    CASE table = <<"llm_outputs">> -> Value(Len(w.llm_outputs))
      [] table = <<"llm_notifications">> -> Value(Len(w.llm_notifications))
      [] table = <<"system_metrics_log">> -> Value(SystemMetricsRows)
      [] OTHER -> Raised("sqlite3.Error")

\* INSERT INTO llm_outputs (llm_id, content): id is INTEGER PRIMARY KEY
\* without AUTOINCREMENT, so the new rowid is the largest rowid in the table
\* plus one.
next_output_id(outputs) ==
    IF outputs = <<>> THEN 1 ELSE outputs[Len(outputs)].id + 1

insert_output(w, content) ==
    [w EXCEPT !.llm_outputs = Append(@, [id |-> next_output_id(@), content |-> content]),
              !.wrote = Append(@, content)]

\* DELETE FROM llm_outputs WHERE id=?
delete_output(w, row_id) ==
    [w EXCEPT !.llm_outputs = SelectSeq(@, LAMBDA r : r.id # row_id)]

\* llm_command_daemon.handle_command with the SELECT test left out
handle_command_AlwaysInserts(w, command) ==
    IF startswith(command, CMD_START)
    THEN LET comp_id == strip(SubSeq(command, Len(CMD_START) + 1, Len(command)))
             row == [base_script_name |-> comp_id \o <<".py">>,
                     manager_affinity |-> DAEMON_MANAGER,
                     desired_state |-> "active",
                     launch_args_json |-> "{}"]
         IN [w EXCEPT !.autorun_components =
                 [c \in DOMAIN @ \cup {comp_id} |-> IF c = comp_id THEN row ELSE @[c]]]
    ELSE w

\* llm_command_daemon.handle_command
handle_command(w, command) ==
    IF startswith(command, CMD_START)
    THEN LET comp_id == strip(SubSeq(command, Len(CMD_START) + 1, Len(command)))
             w1 == log_db_access(w, "llm_command_daemon", "autorun_components", "READ")
             row == [base_script_name |-> comp_id \o <<".py">>,
                     manager_affinity |-> DAEMON_MANAGER,
                     desired_state |-> "active",
                     launch_args_json |-> "{}"]
             w2 == IF comp_id \in DOMAIN w1.autorun_components
                   THEN [w1 EXCEPT !.autorun_components[comp_id].desired_state = "active"]
                   ELSE [w1 EXCEPT !.autorun_components =
                            [c \in DOMAIN @ \cup {comp_id} |->
                                IF c = comp_id THEN row ELSE @[c]]]
         IN log_db_access(w2, "llm_command_daemon", "autorun_components", "WRITE")
    ELSE w

\* The for loop of llm_command_daemon.main_loop over the fetched rows.
RECURSIVE command_rows(_, _)
command_rows(w, rows) ==
    IF rows = <<>> THEN w
    ELSE LET row == Head(rows)
             w1 == [w EXCEPT !.daemons.last_id = row.id]
             w2 == IF row.content # <<>> /\ startswith(row.content, CMD)
                   THEN LET h == handle_command(w1, row.content)
                            d == delete_output(h, row.id)
                            l == log_db_access(d, "llm_command_daemon", "llm_outputs", "WRITE")
                        IN [l EXCEPT !.handled = Append(@, row)]
                   ELSE w1
         IN command_rows(w2, Tail(rows))

\* One turn of the while loop of llm_command_daemon.main_loop.
command_poll(w) ==
    LET rows == SelectSeq(w.llm_outputs, LAMBDA r : r.id > w.daemons.last_id)
        w1 == log_db_access(w, "llm_command_daemon", "llm_outputs", "READ")
    IN command_rows(w1, rows)

\* One turn of llm_config_daemon.main_loop that leaves needs_reload as it is
config_poll_KeepsFlag(w) ==
    IF w.llm_io_config.needs_reload # 0
    THEN [w EXCEPT !.llm_notifications =
              Append(@, [id |-> Len(@) + 1, notification_type |-> "CONFIG_RELOAD",
                         payload |-> PyNone, processed |-> 0])]
    ELSE w

\* One turn of the while loop of llm_config_daemon.main_loop: the INSERT and
\* the UPDATE are one transaction.
config_poll(w) ==
    IF w.llm_io_config.needs_reload # 0
    THEN [w EXCEPT !.llm_notifications =
              Append(@, [id |-> Len(@) + 1, notification_type |-> "CONFIG_RELOAD",
                         payload |-> PyNone, processed |-> 0]),
                   !.llm_io_config.needs_reload = 0]
    ELSE w

\* llm_processor.load_config: the row of main_llm_processor is there.
load_config(w) ==
    LET w1 == log_db_access(w, "main_llm_processor", "llm_io_config", "READ")
    IN [w1 EXCEPT !.daemons.read_tables = table_list(w.llm_io_config.read_tables),
                  !.daemons.output_table = w.llm_io_config.output_table]

\* The for loop of llm_processor.main over the tables of a RUN or a PUSH.
RECURSIVE run_tables(_, _)
run_tables(w, tables) ==
    IF tables = <<>> THEN w
    ELSE LET table == Head(tables)
             c == count_rows(w, table)
             count == IF c.kind = "value" THEN c.value ELSE 0
             w1 == IF c.kind = "value"
                   THEN log_db_access(w, "main_llm_processor", table, "READ")
                   ELSE w
         IN run_tables(insert_output(w1, table \o <<" rows=">> \o str(count)),
                       Tail(tables))

\* llm_processor.main on a notification, with the payload never looked at
process_notification_IgnoresPayload(w, i) ==
    LET note == w.llm_notifications[i]
        w1 == [w EXCEPT !.llm_notifications[i].processed = 1,
                        !.handled = Append(@, note)]
    IN CASE note.notification_type = "CONFIG_RELOAD" -> load_config(w1)
         [] note.notification_type \in {"RUN", "PUSH"} ->
               run_tables(w1, w1.daemons.read_tables)
         [] note.notification_type = "PULL_REQUEST" /\ Truthy(note.payload) ->
               insert_output(w1, <<"REQUEST:">> \o note.payload.value)
         [] OTHER -> w1

\* llm_processor.main on the notification it fetched: row i of the table.
process_notification(w, i) ==
    LET note == w.llm_notifications[i]
        w0 == log_db_access(w, "main_llm_processor", "llm_notifications", "READ")
        w1 == [w0 EXCEPT !.llm_notifications[i].processed = 1,
                         !.handled = Append(@, note)]
    IN CASE note.notification_type = "CONFIG_RELOAD" -> load_config(w1)
         [] note.notification_type \in {"RUN", "PUSH"} ->
               run_tables(w1, IF Truthy(note.payload)
                              THEN table_list(note.payload.value)
                              ELSE w1.daemons.read_tables)
         [] note.notification_type = "PULL_REQUEST" /\ Truthy(note.payload) ->
               insert_output(w1, <<"REQUEST:">> \o note.payload.value)
         [] OTHER -> w1

\* ---------------------------------------------- the llm daemons at work
UnchangedButLlm ==
    UNCHANGED <<db_writable, scripts, pid_files, spawned, live,
                component_lifecycle_log, lastOp, bootVars, pidTextVars, stepVars>>

\* What a poll found of what it may change later in the same turn: the
\* registry, needs_reload, the loaded read_tables.
LlmBefore(op) ==
    CASE op = "command_poll" -> [autorun_components |-> autorun_components]
      [] op = "config_poll" -> [needs_reload |-> llm_io_config.needs_reload]
      [] op \in {"processor_poll", "processor_crash"} ->
            [read_tables |-> daemons.read_tables]

LlmCommit(op, w) ==
    /\ autorun_components' = w.autorun_components
    /\ llm_io_config' = w.llm_io_config
    /\ llm_notifications' = w.llm_notifications
    /\ llm_outputs' = w.llm_outputs
    /\ daemons' = w.daemons
    /\ llmOp' = [op |-> op, before |-> LlmBefore(op), handled |-> w.handled,
                 wrote |-> w.wrote, access |-> w.access]
    /\ UnchangedButLlm

\* The tables stay within the bounds.
WithinLlmBounds(w) ==
    /\ Len(w.llm_notifications) <= MaxNotifications
    /\ Len(w.llm_outputs) <= MaxOutputs
    /\ next_output_id(w.llm_outputs) <= MaxOutputId + 1

\* One turn of the loop of llm_command_daemon.py.
CommandDaemonPoll ==
    LlmCommit("command_poll", command_poll(LlmWorld))

\* One turn of the loop of llm_config_daemon.py.
ConfigDaemonPoll ==
    /\ WithinLlmBounds(config_poll(LlmWorld))
    /\ LlmCommit("config_poll", config_poll(LlmWorld))

\* One turn of the loop of llm_processor.py: fetchone() of a SELECT without
\* ORDER BY hands over any one of the unprocessed rows.
ProcessorPoll ==
    \E i \in 1..Len(llm_notifications) :
          /\ llm_notifications[i].processed = 0
          /\ WithinLlmBounds(process_notification(LlmWorld, i))
          /\ LlmCommit("processor_poll", process_notification(LlmWorld, i))

\* The notifications something else than the daemons posts.
PostedNotifications ==
    {[notification_type |-> "RUN", payload |-> PyNone],
     [notification_type |-> "RUN", payload |-> Value(<<>>)],
     [notification_type |-> "PUSH",
      payload |-> Value(<<" ", "llm_outputs", ",", "no_such_table", ",">>)],
     [notification_type |-> "PULL_REQUEST", payload |-> Value(<<"metrics">>)]}

\* INSERT INTO llm_notifications: id is AUTOINCREMENT and no row is ever
\* deleted, so the id of a row is its place in the table.
PostNotification ==
    /\ Len(llm_notifications) < MaxNotifications
    /\ \E n \in PostedNotifications :
          llm_notifications' =
              Append(llm_notifications,
                     [id |-> Len(llm_notifications) + 1,
                      notification_type |-> n.notification_type,
                      payload |-> n.payload, processed |-> 0])
    /\ llmOp' = [op |-> "env"]
    /\ UNCHANGED <<autorun_components, llm_io_config, llm_outputs, daemons>>
    /\ UnchangedButLlm

\* The value of read_tables an operator configures.
ReadTablesText == <<"no_such_table", ",", " ", "system_metrics_log">>

\* An operator changes read_tables and asks for a reload.
RequestReload ==
    /\ llm_io_config' = [llm_io_config EXCEPT !.read_tables = ReadTablesText,
                                               !.needs_reload = 1]
    /\ llmOp' = [op |-> "env"]
    /\ UNCHANGED <<autorun_components, llm_notifications, llm_outputs, daemons>>
    /\ UnchangedButLlm

\* The texts the language model leaves in llm_outputs.
LlmContents ==
    {<<"CMD:", "START", " ", "nano_analyzer_01">>,
     <<"CMD:", "START", " ", " ", "test_comp", "\n">>,
     <<"CMD:", "STOP", " ", "temp_main_daemon">>}

\* The language model writes a row of llm_outputs.
LlmWrites ==
    /\ Len(llm_outputs) < MaxOutputs
    /\ next_output_id(llm_outputs) <= MaxOutputId
    /\ \E content \in LlmContents :
          llm_outputs' = Append(llm_outputs,
                                [id |-> next_output_id(llm_outputs), content |-> content])
    /\ llmOp' = [op |-> "env"]
    /\ UNCHANGED <<autorun_components, llm_io_config, llm_notifications, daemons>>
    /\ UnchangedButLlm

\* The database as init_database.py leaves it, with two of the default rows
\* of the registry, and the processor after its first load_config.
LlmInit ==
    /\ autorun_components =
          [c \in {<<"temp_main_daemon">>, <<"nano_analyzer_01">>} |->
              IF c = <<"temp_main_daemon">>
              THEN [base_script_name |-> <<"temp_main_daemon", ".py">>,
                    manager_affinity |-> DAEMON_MANAGER,
                    desired_state |-> "active",
                    launch_args_json |-> "{}"]
              ELSE [base_script_name |-> <<"nano_instance", ".py">>,
                    manager_affinity |-> NANO_MANAGER,
                    desired_state |-> "inactive",
                    launch_args_json |-> "object"]]
    /\ db_writable = TRUE
    /\ scripts = ComponentIds
    /\ pid_files = [c \in {} |-> None]
    /\ spawned = <<>>
    /\ live = {}
    /\ component_lifecycle_log = <<>>
    /\ lastOp = NoOp("env")
    /\ boot = [pc |-> "off", i |-> 1, code |-> NoExit, critical |-> DefaultCritical,
               pid_file |-> FALSE, process |-> "-"]
    /\ launched_managers = <<>>
    /\ mgr_proc = [m \in Managers |-> [gen |-> 0, status |-> "none"]]
    /\ bootOp = NoBootOp("env")
    /\ pid_file_text = [exists |-> FALSE, text |-> <<>>]
    /\ pidOp = [op |-> "-"]
    /\ llm_io_config = [read_tables |-> <<"system_metrics_log">>,
                        output_table |-> <<"llm_outputs">>, needs_reload |-> 0]
    /\ llm_notifications = <<>>
    /\ llm_outputs = <<>>
    /\ daemons = [last_id |-> 0, read_tables |-> <<<<"system_metrics_log">>>>,
                  output_table |-> <<"llm_outputs">>]
    /\ llmOp = [op |-> "env"]
    /\ StepsIdle

LlmNext ==
    \/ CommandDaemonPoll
    \/ ConfigDaemonPoll
    \/ ProcessorPoll
    \/ PostNotification
    \/ RequestReload
    \/ LlmWrites

LlmSpec == LlmInit /\ [][LlmNext]_vars

\* --------------------------------------------- boot_system_enhanced.py run
\* python boot_system_enhanced.py: prerequisites checked, the boot PID file
\* written, about to launch the first manager.
BootInit ==
    /\ \E installed \in Installations :
          autorun_components =
              [c \in installed |-> [manager_affinity |-> default_manager_affinity(c),
                                    desired_state |-> default_desired_state(c),
                                    launch_args_json |-> default_launch_args_json(c)]]
    /\ db_writable \in BOOLEAN
    /\ InitEnv
    /\ \E critical \in CriticalConfigs :
          boot = [pc |-> "launching", i |-> 1, code |-> NoExit, critical |-> critical,
                  pid_file |-> TRUE, process |-> "-"]
    /\ launched_managers = <<>>
    /\ mgr_proc = [m \in Managers |-> [gen |-> 0, status |-> "none"]]
    /\ bootOp = NoBootOp("env")
    /\ WorkersIdle

BootNext ==
    \/ BootLaunch
    \/ BootHealthCheck(DAEMON_MANAGER)
    \/ BootHealthCheck(NANO_MANAGER)
    \/ BootHealthCheck(MAIN_LLM_MANAGER)
    \/ BootSignal
    \/ ManagerRuns(DAEMON_MANAGER)
    \/ ManagerRuns(NANO_MANAGER)
    \/ ManagerRuns(MAIN_LLM_MANAGER)

BootSpec == BootInit /\ [][BootNext]_vars

\* ------------------------------------------------- the system left running
\* The whole system under fair scheduling, in the circumstances of a
\* convergence: every script exists, the operating system refuses nothing,
\* no signal reaches the orchestrator, desired_state stays 'active',
\* MANAGER_CONFIG is the one of the source.
\* Every relaunch of a manager adds rows to the lifecycle table, for ever;
\* the behaviours are explored with a database that refuses the writes,
\* which changes nothing else and keeps the state space finite.
FairRegistry == {"temp_main_daemon", "main_llm_processor"}

FairInit ==
    /\ autorun_components =
          [c \in FairRegistry |-> [manager_affinity |-> default_manager_affinity(c),
                                   desired_state |-> "active",
                                   launch_args_json |-> default_launch_args_json(c)]]
    /\ db_writable = FALSE
    /\ scripts = FairRegistry
    /\ pid_files = [c \in {} |-> None]
    /\ spawned = <<>>
    /\ live = {}
    /\ component_lifecycle_log = <<>>
    /\ lastOp = NoOp("env")
    /\ boot = [pc |-> "launching", i |-> 1, code |-> NoExit,
               critical |-> DefaultCritical, pid_file |-> TRUE, process |-> "-"]
    /\ launched_managers = <<>>
    /\ mgr_proc = [m \in Managers |-> [gen |-> 0, status |-> "none"]]
    /\ bootOp = NoBootOp("env")
    /\ WorkersIdle

\* Every launch of a manager succeeds.
LaunchSucceeds == {in \in BootInputs : in.outcome = "ok" /\ in.term_exits = {}}

\* Every spawn of a component succeeds and the manager may signal every process.
StartSucceeds(m) ==
    {in \in StartInputs(SeqToSet(components_to_manage(m))) :
        in.perm /\ in.spawn_ok = SeqToSet(components_to_manage(m))}

FairBootLaunch == BootLaunchWith(LaunchSucceeds)

FairBootHealthCheck(m) == BootHealthCheckWith(m, LaunchSucceeds)

FairManagerRuns(m) == ManagerRunsWith(m, StartSucceeds(m))

\* A component process crashes. PIDs are not reused, so the number of
\* crashes in one behaviour is bounded: MaxLog processes in all.
ComponentCrashes ==
    /\ Len(spawned) - Cardinality(live) < MaxLog - Cardinality(Components)
    /\ ProcessExits

FairNext ==
    \/ FairBootLaunch
    \/ FairBootHealthCheck(DAEMON_MANAGER)
    \/ FairBootHealthCheck(NANO_MANAGER)
    \/ FairBootHealthCheck(MAIN_LLM_MANAGER)
    \/ FairManagerRuns(DAEMON_MANAGER)
    \/ FairManagerRuns(NANO_MANAGER)
    \/ FairManagerRuns(MAIN_LLM_MANAGER)
    \/ ComponentCrashes

\* The orchestrator's loops and every launched manager process keep being
\* scheduled; nothing obliges a component to crash.
FairSpec ==
    /\ FairInit
    /\ [][FairNext]_vars
    /\ WF_vars(FairBootLaunch)
    /\ \A m \in Managers : WF_vars(FairBootHealthCheck(m))
    /\ \A m \in Managers : WF_vars(FairManagerRuns(m))

\* ================================================================== claims
LiveProcessesOf(c) == {p \in live : spawned[p].component_id = c}

\* PIDs spawned by the last call.
NewPids == (lastOp.pre_spawned + 1)..Len(spawned)

\* Lifecycle rows the last call appended for component c, in order.
NewRowsFor(c) ==
    SelectSeq(SubSeq(component_lifecycle_log, lastOp.pre_log + 1,
                     Len(component_lifecycle_log)),
              LAMBDA r : r.component_id = c)

EventTypes(rows) == [i \in 1..Len(rows) |-> rows[i].event_type]

\* The PID file of c named an existing process when the last call began.
HandleNamedLiveProcess(c) ==
    c \in DOMAIN lastOp.pre_pf /\ lastOp.pre_pf[c] \in lastOp.pre_live

\* The last call was stop_component of nano_manager / main_llm_manager.
IsStopCall == lastOp.op = "stop_component"

\* The last call was a reconciliation pass.
IsPass == lastOp.op = "autorun"

\* C1: at most one live OS process is associated with a component_id, in
\* every state reached by autorun passes, CLI start, CLI stop and CLI reset.
C1_AtMostOneLiveProcess ==
    \A c \in Components : Cardinality(LiveProcessesOf(c)) <= 1

\* C2: a pass appends, for every owned component with desired_state active
\* and no live process, exactly one START_ATTEMPT row followed by either
\* STARTED_SUCCESSFULLY (PID file present, holding the spawned PID) or
\* START_FAILED (no PID file).
C2_StartOutcomeRecorded ==
    IsPass =>
        \A c \in Components :
            (/\ manager_affinity(c) = lastOp.mgr
             /\ desired_state(c) = "active"
             /\ \A p \in lastOp.pre_live : spawned[p].component_id # c)
            => LET ev == EventTypes(NewRowsFor(c))
               IN \/ /\ ev = <<"START_ATTEMPT", "STARTED_SUCCESSFULLY">>
                     /\ c \in DOMAIN pid_files
                     /\ pid_files[c] \in NewPids
                     /\ spawned[pid_files[c]].component_id = c
                  \/ /\ ev = <<"START_ATTEMPT", "START_FAILED">>
                     /\ c \notin DOMAIN pid_files

\* C3: a pass stops every owned component whose desired_state is inactive
\* and whose process is observed running: the stop protocol is invoked for
\* it and after the pass the process is no longer live.
C3_PassStopsInactive ==
    IsPass =>
        \A c \in Components :
            (/\ manager_affinity(c) = lastOp.mgr
             /\ desired_state(c) = "inactive"
             /\ HandleNamedLiveProcess(c)
             /\ lastOp.perm)
            => /\ lastOp.pre_pf[c] \notin live
               /\ NewRowsFor(c) # <<>>

\* Liveness as the supervisor observes it (spec 3: PID file plus probe).
ObservedRunning(pid) == is_process_running(World, pid, lastOp)

WasStopped(c) ==
    c \notin DOMAIN lastOp.pre_pf \/ lastOp.pre_pf[c] \notin lastOp.pre_live

IgnoredGracefulSignal ==
    /\ IsStopCall
    /\ "timeout" \in lastOp.notes
    /\ "ProcessLookupError" \notin lastOp.notes

LastRow == component_lifecycle_log[Len(component_lifecycle_log)]

\* C6: when the process ignores the graceful signal for the whole bounded
\* wait, stop_component_with_timeout sends SIGKILL after the SIGTERM and
\* re-checks: process dead -> STOPPED_FORCEFULLY and success, process alive
\* -> STOP_FAILED and failure.
C6_TimeoutEscalation ==
    IgnoredGracefulSignal =>
        LET pid == lastOp.pre_pf[lastOp.target]
        IN /\ lastOp.sent = <<<<pid, "SIGTERM">>, <<pid, "SIGKILL">>>>
           /\ LastRow.component_id = lastOp.target
           /\ LastRow.process_pid = pid
           /\ IF pid \notin live
              THEN LastRow.event_type = "STOPPED_FORCEFULLY" /\ lastOp.ret = "ok"
              ELSE LastRow.event_type = "STOP_FAILED" /\ lastOp.ret = "fail"

C6_Witness ==
    /\ IgnoredGracefulSignal
    /\ lastOp.pre_pf[lastOp.target] \in live
    /\ LastRow.event_type = "STOP_FAILED"

\* C7: whenever a stop invocation returns failure, the PID file is left in
\* place with its content unchanged.
C7_FailureKeepsPidFile ==
    (IsStopCall /\ lastOp.ret = "fail")
    => /\ lastOp.target \in DOMAIN lastOp.pre_pf
       /\ lastOp.target \in DOMAIN pid_files
       /\ pid_files[lastOp.target] = lastOp.pre_pf[lastOp.target]

C7_Witness ==
    /\ IsStopCall /\ lastOp.ret = "fail"
    /\ lastOp.target \in DOMAIN pid_files
    /\ pid_files[lastOp.target] \in live

\* C8: no supervisor operation removes the PID file of a component while the
\* process it names is still live.
C8_NoLivePidFileRemoved ==
    lastOp.op # "env" =>
        \A c \in Components :
            (c \in DOMAIN lastOp.pre_pf /\ lastOp.pre_pf[c] \in live)
            => c \in DOMAIN pid_files

\* The PID file of c was stale when the pass began and c is to be active.
StaleAndActive(c) ==
    /\ manager_affinity(c) = lastOp.mgr
    /\ desired_state(c) = "active"
    /\ c \in DOMAIN lastOp.pre_pf
    /\ lastOp.pre_pf[c] \notin lastOp.pre_live

\* The pass spawned a fresh process for c and the PID file of c holds its PID.
FreshProcessInPidFile(c) ==
    /\ c \in DOMAIN pid_files
    /\ pid_files[c] # lastOp.pre_pf[c]
    /\ pid_files[c] \in NewPids
    /\ spawned[pid_files[c]].component_id = c
    /\ pid_files[c] \in live

\* C9 as claimed: a stale PID file and desired_state active -> one pass
\* drops the stale PID, spawns a fresh process and leaves its PID in the file.
C9_StalePidReplaced ==
    IsPass => \A c \in Components : StaleAndActive(c) => FreshProcessInPidFile(c)

\* C9 with the provisos of the failure policy: the same, provided the launch
\* target of the component exists and the operating system does not refuse
\* the spawn. (Holds for well-formed launch arguments; not in ArgsSpec.)
C9_StalePidReplacedWhenSpawnable ==
    IsPass =>
        \A c \in Components :
            (StaleAndActive(c) /\ c \in scripts /\ c \notin lastOp.failed)
            => FreshProcessInPidFile(c)

C9_Witness ==
    /\ IsPass
    /\ \E c \in Components : StaleAndActive(c) /\ FreshProcessInPidFile(c)

\* C10: the components a supervisor lists are rows of its own affinity only,
\* and no call of a supervisor spawns a process for, signals a process of,
\* writes or removes the PID file of, or logs an event for a component whose
\* manager_affinity names another supervisor.
C10_RegistryPartitioning ==
    /\ \A m \in Managers :
         /\ \A c \in SeqToSet(components_to_manage(m)) : manager_affinity(c) = m
         /\ \A t \in CliTargets :
              \A c \in SeqToSet(components_to_act_on(m, t)) : manager_affinity(c) = m
    /\ lastOp.op # "env" =>
         /\ \A p \in NewPids :
              /\ spawned[p].manager = lastOp.mgr
              /\ manager_affinity(spawned[p].component_id) = lastOp.mgr
         /\ \A i \in 1..Len(lastOp.sent) :
              manager_affinity(spawned[lastOp.sent[i][1]].component_id) = lastOp.mgr
         /\ \A c \in Components :
              manager_affinity(c) # lastOp.mgr
              => /\ (c \in DOMAIN pid_files) = (c \in DOMAIN lastOp.pre_pf)
                 /\ c \in DOMAIN pid_files => pid_files[c] = lastOp.pre_pf[c]
                 /\ NewRowsFor(c) = <<>>

\* daemon_manager's CLI was asked to stop a running component of another
\* supervisor and left it alone.
C10_Witness ==
    /\ lastOp.op = "stop" /\ lastOp.mgr = DAEMON_MANAGER
    /\ lastOp.target \in Components
    /\ manager_affinity(lastOp.target) # DAEMON_MANAGER
    /\ lastOp.target \in DOMAIN pid_files
    /\ pid_files[lastOp.target] \in live

\* ------------------------------------------------------------- C13 .. C17
\* The pass found c not running: no PID file, a stale one, or a process the
\* probe could not reach.
ObservedNotRunning(c) ==
    ~(c \in DOMAIN lastOp.pre_pf /\ lastOp.pre_pf[c] \in lastOp.pre_live /\ lastOp.perm)

\* The last call was a pass that had to start c.
ToBeStarted(c) ==
    /\ IsPass
    /\ manager_affinity(c) = lastOp.mgr
    /\ desired_state(c) = "active"
    /\ ObservedNotRunning(c)

\* The start sequence of c ran in the last call: it logged START_ATTEMPT, or
\* it skipped c for its missing script.
Processed(c) == c \notin scripts \/ NewRowsFor(c) # <<>>

Malformed(c) == launch_args_json(c) \in {"not_json", "not_object"}

SpawnedFor(c) == {p \in NewPids : spawned[p].component_id = c}

\* C13: a failure raised while processing one component of a pass (missing
\* script, launch arguments that are not a flag-to-value mapping, spawn
\* error) never crashes the supervisor and never prevents the other
\* components of the pass from being processed.
C13_ErrorContainment ==
    IsPass =>
        /\ lastOp.ret # "raised"
        /\ \A c \in Components :
             (ToBeStarted(c) /\ launch_args_json(c) # "not_object") => Processed(c)

\* C14: a component whose launch_args_json is malformed is skipped by the
\* pass (not spawned) with a warning, no exception escapes the pass, and
\* every other component of the pass is processed.
C14_MalformedArgsSkipped ==
    IsPass =>
        \A c \in Components :
            (ToBeStarted(c) /\ Malformed(c))
            => /\ SpawnedFor(c) = {}
               /\ c \in lastOp.warned
               /\ lastOp.ret # "raised"
               /\ \A d \in Components \ {c} :
                    (ToBeStarted(d) /\ ~Malformed(d)) => Processed(d)

\* C15: when the script of a component does not exist, the start sequence
\* records START_FAILED for it, spawns nothing and writes no PID file.
C15_MissingScriptStartFailed ==
    IsPass =>
        \A c \in Components :
            (ToBeStarted(c) /\ c \notin scripts)
            => /\ \E i \in 1..Len(NewRowsFor(c)) :
                    NewRowsFor(c)[i].event_type = "START_FAILED"
               /\ SpawnedFor(c) = {}
               /\ c \in DOMAIN pid_files
                  => c \in DOMAIN lastOp.pre_pf /\ pid_files[c] = lastOp.pre_pf[c]

\* The last row of the lifecycle table when p was spawned is the
\* START_ATTEMPT row of the same start sequence.
AttemptPrecedes(p) ==
    LET i == spawned[p].rows_before
    IN /\ i > lastOp.pre_log
       /\ component_lifecycle_log[i].event_type = "START_ATTEMPT"
       /\ component_lifecycle_log[i].component_id = spawned[p].component_id
       /\ component_lifecycle_log[i].manager_script = spawned[p].manager

\* C16 as claimed: no process is spawned by a supervisor without a
\* START_ATTEMPT row of the same start sequence recorded before the spawn.
C16_StartAttemptBeforeSpawn ==
    lastOp.op # "env" => \A p \in NewPids : AttemptPrecedes(p)

\* C16 as amended: the same, whenever the database accepts the write of the
\* START_ATTEMPT row.
C16_StartAttemptBeforeSpawnWhenWritable ==
    (lastOp.op # "env" /\ lastOp.db_ok) => \A p \in NewPids : AttemptPrecedes(p)

C16_Witness ==
    /\ lastOp.op = "reset" /\ lastOp.db_ok
    /\ NewPids # {}
    /\ \A p \in NewPids : AttemptPrecedes(p)

\* What a call did, apart from the lifecycle rows it could write.
Outcome(w) ==
    [pf |-> w.pf, live |-> w.live, sent |-> w.sent, ret |-> w.ret,
     failed |-> w.failed, notes |-> w.notes,
     procs |-> [p \in 1..Len(w.spawned) |->
                   [component_id |-> w.spawned[p].component_id,
                    manager |-> w.spawned[p].manager]]]

DbDown == [World EXCEPT !.db_ok = FALSE]
DbUp == [World EXCEPT !.db_ok = TRUE]

\* C17: a failing write of a lifecycle row never changes the operation being
\* logged: from any state and for any behaviour of the operating system, a
\* start and a stop spawn, signal, touch the PID file and return exactly as
\* they do when the write succeeds, and a failing write adds no row.
C17_LogFailureNonFatal ==
    \A c \in Components :
        LET m == manager_affinity(c)
        IN /\ \A in \in StartInputs({c}) :
                /\ Outcome(start_component(m, DbDown, c, in))
                     = Outcome(start_component(m, DbUp, c, in))
                /\ start_component(m, DbDown, c, in).log = component_lifecycle_log
           /\ m # DAEMON_MANAGER =>
                \A in \in StopInputs :
                    /\ Outcome(stop_component(m, DbDown, c, in))
                         = Outcome(stop_component(m, DbUp, c, in))
                    /\ stop_component(m, DbDown, c, in).log = component_lifecycle_log

\* A stop escalated to SIGKILL and succeeded while no row could be written.
C17_Witness ==
    /\ IsStopCall /\ ~lastOp.db_ok
    /\ Len(lastOp.sent) = 2
    /\ lastOp.ret = "ok"
    /\ lastOp.target \notin DOMAIN pid_files
    /\ Len(component_lifecycle_log) = lastOp.pre_log

\* ---------------------------------------------------------------- boot claims
Tracked(m) == \E i \in 1..Len(launched_managers) : launched_managers[i] = m

WasTracked(m) == \E i \in 1..Len(bootOp.pre_tracked) : bootOp.pre_tracked[i] = m

\* The rows the last step of the orchestrator wrote.
BootNewRows ==
    SubSeq(component_lifecycle_log, bootOp.pre_log + 1, Len(component_lifecycle_log))

BootRows(m, event_type) ==
    SelectSeq(BootNewRows, LAMBDA r : /\ r.component_id = boot_component_id(m)
                                      /\ r.event_type = event_type)

\* The managers the last step sent sig to.
SentTo(sig) == {bootOp.sent[i][1] : i \in {k \in 1..Len(bootOp.sent) : bootOp.sent[k][2] = sig}}

\* A process of component c is running.
ProcessRunning(c) == \E p \in live : spawned[p].component_id = c

\* C11: whenever a component whose desired_state is active and whose script
\* exists has no running process, its manager eventually starts one, for
\* the components of every manager.
C11_Convergence ==
    \A c \in FairRegistry :
        (/\ c \in Components
         /\ autorun_components[c].desired_state = "active"
         /\ c \in scripts
         /\ ~ProcessRunning(c)) ~> ProcessRunning(c)

\* The same for the components of the managers marked critical only.
C11_ConvergenceOfCritical ==
    \A c \in FairRegistry :
        (/\ default_manager_affinity(c) \in boot.critical
         /\ ~ProcessRunning(c)) ~> ProcessRunning(c)

\* C12: a supervisor process started in autorun mode never ends on its own:
\* it repeats its passes until it is cancelled by a signal.
C12_AutorunLoopRepeats ==
    \A m \in Managers : mgr_proc[m].status # "finished"

\* A health check of a critical manager logged one MANAGER_CRASHED row and
\* called launch_manager once.
CrashLoggedOnce ==
    /\ db_writable => Len(BootRows(bootOp.mgr, "MANAGER_CRASHED")) = 1
    /\ ~db_writable => BootNewRows = <<>>

\* A non-critical manager is launched at most once: its handle is never one
\* of a second process.
NonCriticalNeverRelaunched ==
    \A m \in Managers \ boot.critical : mgr_proc[m].gen # 2

Survivors ==
    {m \in Managers : /\ WasTracked(m)
                      /\ bootOp.pre_procs[m].status = "running"
                      /\ m \notin bootOp.term_exits}

\* C19: on SIGTERM or SIGINT the orchestrator sends SIGTERM to every tracked
\* manager before any SIGKILL, stops tracking the managers that exit within
\* the timeout, sends SIGKILL to exactly the managers still alive after it,
\* and exits with status 0.
C19_GracefulThenForcedShutdown ==
    bootOp.op = "signal" =>
        /\ \A i, j \in 1..Len(bootOp.sent) :
              (bootOp.sent[i][2] = "SIGTERM" /\ bootOp.sent[j][2] = "SIGKILL") => i < j
        /\ SentTo("SIGTERM") = {m \in Managers : WasTracked(m)}
        /\ SentTo("SIGKILL") = Survivors
        /\ \A m \in Managers : Tracked(m) <=> m \in Survivors
        /\ \A m \in Managers :
              (WasTracked(m) /\ bootOp.pre_procs[m].status = "running")
              => mgr_proc[m].status \in {"terminated", "killed"}
        /\ \A m \in Managers : mgr_proc[m].status # "running"
        /\ boot.pc = "exited" /\ boot.code = Exit0

\* One manager exited on SIGTERM, another had to be killed.
C19_Witness ==
    /\ bootOp.op = "signal"
    /\ \E m \in Managers : mgr_proc[m].status = "terminated" /\ ~Tracked(m)
    /\ \E m \in Managers : mgr_proc[m].status = "killed" /\ m \in SentTo("SIGKILL")
    /\ boot.code = Exit0

\* C20: when the spawn of a critical manager raises, the managers launched
\* so far are shut down and the orchestrator exits with status 1; when the
\* spawn of a non-critical manager raises, nothing is shut down and the run
\* goes on with the next manager.
C20_SpawnErrorEscalatedByCriticality ==
    (bootOp.op \in {"launch", "health_check"} /\ bootOp.outcome = "spawn_error"
        /\ (bootOp.op = "launch" \/ bootOp.mgr \in boot.critical)) =>
        IF bootOp.mgr \in boot.critical
        THEN /\ boot.pc = "exited" /\ boot.code = Exit1
             /\ SentTo("SIGTERM") = {m \in Managers : WasTracked(m)} \ {bootOp.mgr}
             /\ \A m \in Managers : mgr_proc[m].status # "running"
             /\ bootOp.launches = 0
        ELSE /\ bootOp.sent = <<>>
             /\ launched_managers = bootOp.pre_tracked
             /\ mgr_proc = bootOp.pre_procs
             /\ IF boot.i < Len(ManagerOrder) \/ bootOp.mgr # ManagerOrder[Len(ManagerOrder)]
                THEN boot.pc = "launching" /\ ManagerOrder[boot.i - 1] = bootOp.mgr
                ELSE \/ boot.pc = "monitoring" /\ launched_managers # <<>>
                     \/ boot.pc = "exited" /\ boot.code = Exit1
                                           /\ launched_managers = <<>>

\* The spawn of a critical manager raised after another manager had been
\* launched: that one was shut down and the orchestrator exited with 1.
C20_Witness ==
    /\ bootOp.op = "launch"
    /\ bootOp.outcome = "spawn_error"
    /\ bootOp.mgr \in boot.critical
    /\ bootOp.pre_tracked # <<>>
    /\ bootOp.sent # <<>>
    /\ boot.code = Exit1

\* The spawn of a non-critical manager raised and the launch loop went on.
C20_AbsorbedWitness ==
    /\ bootOp.op = "launch"
    /\ bootOp.outcome = "spawn_error"
    /\ bootOp.mgr \notin boot.critical
    /\ boot.pc = "launching"

\* ------------------------------------------------------- claims C21 to C30
\* C21: the lifecycle log is append-only: no step of a supervisor or of the
\* orchestrator modifies or deletes a row, so the log before a step is a
\* prefix of the log after it.
C21_LogAppendOnly ==
    [][/\ Len(component_lifecycle_log') >= Len(component_lifecycle_log)
       /\ SubSeq(component_lifecycle_log', 1, Len(component_lifecycle_log))
            = component_lifecycle_log]_vars

\* A pass of a manager added rows to a log that held rows of the
\* orchestrator already.
C21_Witness ==
    /\ lastOp.op = "autorun"
    /\ lastOp.pre_log >= 1
    /\ Len(component_lifecycle_log) > lastOp.pre_log
    /\ component_lifecycle_log[1].manager_script = "boot_system.py"

\* C23: a component process is in a session and process group of its own,
\* never in the group of the manager that launched it, so the signals the
\* orchestrator sends to the groups of the managers reach no component.
C23_ComponentsDetached ==
    /\ \A p \in 1..Len(spawned) :
          \A m \in Managers, g \in 0..2 : spawned[p].pgid # ManagerGroup(m, g)
    /\ bootOp.comp_sent = <<>>

\* The text is a decimal integer as int() reads it: whitespace around it, an
\* optional sign, digits, single underscores between digits.
IsIntegerText(t) ==
    LET u == SelectSeq(t, LAMBDA ch : ch \notin Whitespace)
        body == IF u # <<>> /\ u[1] \in {"-", "+"} THEN Tail(u) ELSE u
    IN /\ \A i, j \in 1..Len(t) :
            (i < j /\ t[i] \notin Whitespace /\ t[j] \notin Whitespace)
            => \A k \in i..j : t[k] \notin Whitespace
       /\ body # <<>>
       /\ \A i \in 1..Len(body) : IsDigit(body[i]) \/ body[i] = "_"
       /\ IsDigit(body[1]) /\ IsDigit(body[Len(body)])
       /\ \A i \in 1..(Len(body) - 1) : ~(body[i] = "_" /\ body[i + 1] = "_")

\* C22: read_pid_file never raises; it returns None for a missing file, an
\* empty file and a file whose text is not an integer, and the PID itself
\* for a file that write_pid_file wrote.
C22_ReadPidFileTotal ==
    pidOp.op = "read" =>
        /\ pidOp.ret.kind \in {"value", "None"}
        /\ ~pidOp.file.exists => pidOp.ret = PyNone
        /\ (pidOp.file.exists /\ pidOp.file.text = <<>>) => pidOp.ret = PyNone
        /\ (pidOp.file.exists /\ ~IsIntegerText(pidOp.file.text)) => pidOp.ret = PyNone
        /\ pidOp.by_write => pidOp.ret = Value(pidOp.pid)

\* A PID of three digits was written and read back.
C22_Witness ==
    /\ pidOp.op = "read"
    /\ pidOp.by_write
    /\ pidOp.pid >= 100
    /\ pidOp.ret = Value(pidOp.pid)

\* A text that is not an integer was read as None.
C22_InvalidWitness ==
    /\ pidOp.op = "read"
    /\ pidOp.file.exists
    /\ Len(pidOp.file.text) = MaxTextLen
    /\ ~IsIntegerText(pidOp.file.text)
    /\ pidOp.ret = PyNone

\* The component a 'CMD:START <id>' text names.
CommandTarget(content) == strip(SubSeq(content, Len(CMD_START) + 1, Len(content)))

\* The rows of llm_outputs a poll of the command daemon is about to go through.
ScannedRows == SelectSeq(llm_outputs, LAMBDA r : r.id > daemons.last_id)

CommandStartActivates ==
    llmOp'.op = "command_poll" =>
        \A k \in 1..Len(ScannedRows) :
            LET row == ScannedRows[k]
                id == CommandTarget(row.content)
            IN startswith(row.content, CMD_START) =>
                  /\ id \in DOMAIN autorun_components'
                  /\ autorun_components'[id].desired_state = "active"
                  /\ id \in DOMAIN autorun_components =>
                        autorun_components'[id] =
                            [autorun_components[id] EXCEPT !.desired_state = "active"]
                  /\ id \notin DOMAIN autorun_components =>
                        /\ autorun_components'[id].manager_affinity = DAEMON_MANAGER
                        /\ autorun_components'[id].base_script_name = id \o <<".py">>
                  /\ \A j \in 1..Len(llm_outputs') : llm_outputs'[j].id # row.id

\* C24: after the command daemon has processed an output row 'CMD:START <id>',
\* the registry has the row of <id> with desired_state active: a row that was
\* there is the row it was but for desired_state, a row that was missing is
\* there with the affinity daemon_manager and the script '<id>.py', and the
\* command row is no longer in llm_outputs.
C24_CommandStartActivates == [][CommandStartActivates]_vars

\* A poll handled 'CMD:START nano_analyzer_01' while the row of
\* nano_analyzer_01 was inactive, and the row is active with the affinity
\* and the script it had.
C24_Witness ==
    /\ llmOp.op = "command_poll"
    /\ \E k \in 1..Len(llmOp.handled) :
          /\ startswith(llmOp.handled[k].content, CMD_START)
          /\ CommandTarget(llmOp.handled[k].content) = <<"nano_analyzer_01">>
          /\ \A j \in 1..Len(llm_outputs) : llm_outputs[j].id # llmOp.handled[k].id
    /\ llmOp.before.autorun_components[<<"nano_analyzer_01">>].desired_state = "inactive"
    /\ autorun_components[<<"nano_analyzer_01">>].desired_state = "active"
    /\ autorun_components[<<"nano_analyzer_01">>].manager_affinity = NANO_MANAGER
    /\ autorun_components[<<"nano_analyzer_01">>].base_script_name
          = <<"nano_instance", ".py">>

\* A poll handled a command for test_comp, which had no row, and inserted it.
C24_InsertWitness ==
    /\ llmOp.op = "command_poll"
    /\ <<"test_comp">> \notin DOMAIN llmOp.before.autorun_components
    /\ <<"test_comp">> \in DOMAIN autorun_components
    /\ autorun_components[<<"test_comp">>].base_script_name = <<"test_comp", ".py">>
    /\ llm_outputs = <<>>

ConfigReloadNotified ==
    llmOp'.op = "config_poll" =>
        IF llm_io_config.needs_reload # 0
        THEN /\ llm_notifications' =
                   Append(llm_notifications,
                          llm_notifications'[Len(llm_notifications')])
             /\ llm_notifications'[Len(llm_notifications')].notification_type
                   = "CONFIG_RELOAD"
             /\ llm_notifications'[Len(llm_notifications')].processed = 0
             /\ llm_io_config' = [llm_io_config EXCEPT !.needs_reload = 0]
        ELSE /\ llm_notifications' = llm_notifications
             /\ llm_io_config' = llm_io_config

\* C25: a poll of the config daemon that finds needs_reload set appends
\* exactly one unprocessed CONFIG_RELOAD notification and clears needs_reload
\* in the same commit; a poll that finds it clear leaves the notifications
\* and the configuration row as they were.
C25_ConfigReloadNotified == [][ConfigReloadNotified]_vars

\* A poll found needs_reload set and posted the notification.
C25_Witness ==
    /\ llmOp.op = "config_poll"
    /\ llmOp.before.needs_reload = 1
    /\ llm_io_config.needs_reload = 0
    /\ llm_notifications # <<>>
    /\ llm_notifications[Len(llm_notifications)].notification_type = "CONFIG_RELOAD"

\* A poll found needs_reload clear while there are notifications.
C25_ClearWitness ==
    /\ llmOp.op = "config_poll"
    /\ llmOp.before.needs_reload = 0
    /\ llm_notifications # <<>>

\* What SELECT COUNT(*) answers for the k-th table of a RUN or a PUSH.
ExpectedCount(table, k) ==
    CASE table = <<"llm_outputs">> -> Len(llm_outputs) + (k - 1)
      [] table = <<"llm_notifications">> -> Len(llm_notifications)
      [] table = <<"system_metrics_log">> -> SystemMetricsRows
      [] OTHER -> 0

\* The rows the processor is to write for a notification.
ExpectedOutputs(note) ==
    LET tables == IF Truthy(note.payload) THEN table_list(note.payload.value)
                  ELSE daemons.read_tables
    IN CASE note.notification_type \in {"RUN", "PUSH"} ->
               [k \in 1..Len(tables) |->
                   tables[k] \o <<" rows=">> \o str(ExpectedCount(tables[k], k))]
         [] note.notification_type = "PULL_REQUEST" /\ Truthy(note.payload) ->
               << <<"REQUEST:">> \o note.payload.value >>
         [] OTHER -> <<>>

HandledOnce ==
    llmOp'.op = "processor_poll" =>
        \E i \in 1..Len(llm_notifications) :
            LET note == llm_notifications[i]
                rows == ExpectedOutputs(note)
            IN /\ note.processed = 0
               /\ llm_notifications' = [llm_notifications EXCEPT ![i].processed = 1]
               /\ Len(llm_outputs') = Len(llm_outputs) + Len(rows)
               /\ SubSeq(llm_outputs', 1, Len(llm_outputs)) = llm_outputs
               /\ \A k \in 1..Len(rows) :
                     llm_outputs'[Len(llm_outputs) + k].content = rows[k]

StaysProcessed ==
    \A i \in 1..Len(llm_notifications) :
        llm_notifications[i].processed # 0 =>
            /\ i <= Len(llm_notifications')
            /\ llm_notifications'[i] = llm_notifications[i]

\* C26: the processor handles a RUN or a PUSH by writing one row
\* '<table> rows=<count>' per table, the tables of the payload when the
\* notification has one and the read_tables of the loaded configuration
\* otherwise; it handles a PULL_REQUEST with a payload by writing the one row
\* 'REQUEST:<payload>'; the notification it handles was unprocessed, is marked
\* processed, and a processed notification is never touched again.
C26_ProcessorHandlesNotification == [][HandledOnce /\ StaysProcessed]_vars

\* A PUSH whose payload lists two tables wrote two rows.
C26_Witness ==
    /\ llmOp.op = "processor_poll"
    /\ llmOp.handled[1].notification_type = "PUSH"
    /\ Truthy(llmOp.handled[1].payload)
    /\ Len(llmOp.wrote) = 2
    /\ llm_notifications[llmOp.handled[1].id].processed = 1

\* A RUN without payload wrote the rows of the loaded read_tables, which are
\* not the read_tables of the configuration row any more.
C26_LoadedConfigWitness ==
    /\ llmOp.op = "processor_poll"
    /\ llmOp.handled[1].notification_type = "RUN"
    /\ ~Truthy(llmOp.handled[1].payload)
    /\ llmOp.wrote = << <<"system_metrics_log", " rows=">> \o str(SystemMetricsRows) >>
    /\ table_list(llm_io_config.read_tables) # llmOp.before.read_tables

\* A PULL_REQUEST with a payload wrote its row.
C26_PullRequestWitness ==
    /\ llmOp.op = "processor_poll"
    /\ llmOp.handled[1].notification_type = "PULL_REQUEST"
    /\ llmOp.wrote = << <<"REQUEST:", "metrics">> >>

\* No component before c in the pass made the pass raise.
PassReached(c) ==
    \A i, j \in 1..Len(Rows) :
        (i < j /\ Rows[j] = c /\ ToBeStarted(Rows[i]))
        => launch_args_json(Rows[i]) # "not_object"

\* The pass warned about the launch_args_json of c and ran the start sequence
\* for c with no launch arguments.
StartedWithoutArgs(c) ==
    /\ c \in lastOp.warned
    /\ Processed(c)
    /\ (c \in scripts /\ c \notin lastOp.failed) =>
          /\ "START_ATTEMPT" \in SeqToSet(EventTypes(NewRowsFor(c)))
          /\ \E p \in SpawnedFor(c) :
                /\ spawned[p].launch_args = <<>>
                /\ c \in DOMAIN pid_files
                /\ pid_files[c] = p

\* C27: a malformed launch_args_json does not abort the start of its
\* component: the pass logs a warning and runs the start sequence with no
\* extra arguments (START_ATTEMPT, spawn, PID file written).
C27_MalformedArgsStartAnyway ==
    IsPass =>
        \A c \in Components :
            (ToBeStarted(c) /\ Malformed(c) /\ PassReached(c)) => StartedWithoutArgs(c)

\* C27 for the values json.loads rejects.
C27_UnparseableArgsStartAnyway ==
    IsPass =>
        \A c \in Components :
            (ToBeStarted(c) /\ launch_args_json(c) = "not_json" /\ PassReached(c))
            => StartedWithoutArgs(c)

\* A pass started a component whose launch_args_json is not JSON.
C27_UnparseableWitness ==
    /\ IsPass
    /\ \E c \in Components :
          /\ ToBeStarted(c)
          /\ launch_args_json(c) = "not_json"
          /\ \E p \in SpawnedFor(c) : spawned[p].launch_args = <<>>
          /\ c \in lastOp.warned

\* C28: an exception that escapes a reconciliation pass is caught at the
\* outer loop of the supervisor (logged, backoff, retry) and never terminates
\* the supervisor process: no pass ends by raising out of the manager.
C28_EscapedExceptionCaught ==
    (IsPass /\ "AttributeError" \in lastOp.notes) => lastOp.ret = "none"

\* The last call left c alone: nothing spawned for it, no signal to the
\* process of its PID file, its PID file as it was, no lifecycle row for it.
LeftAlone(c) ==
    /\ SpawnedFor(c) = {}
    /\ \A i \in 1..Len(lastOp.sent) :
          c \in DOMAIN lastOp.pre_pf => lastOp.sent[i][1] # lastOp.pre_pf[c]
    /\ (c \in DOMAIN pid_files) = (c \in DOMAIN lastOp.pre_pf)
    /\ c \in DOMAIN pid_files => pid_files[c] = lastOp.pre_pf[c]
    /\ NewRowsFor(c) = <<>>

\* The no-op rows of the decision table of a pass of the manager of c.
PassNoOpCase(c) ==
    /\ IsPass
    /\ manager_affinity(c) = lastOp.mgr
    /\ \/ desired_state(c) = "active" /\ ~ObservedNotRunning(c)
       \/ desired_state(c) = "inactive" /\ ObservedNotRunning(c)

\* The last call invoked start_component on c while the PID file of c named
\* an existing process.
StartOnLiveHandle(c) ==
    /\ HandleNamedLiveProcess(c)
    /\ \/ ToBeStarted(c)
       \/ /\ lastOp.op = "start"
          /\ c \in SeqToSet(components_to_act_on(lastOp.mgr, lastOp.target))

\* C29: a pass leaves a component alone when it is {active, running} or
\* {inactive, not running}: no spawn, no signal, PID file untouched, no
\* lifecycle row; start_component on a component whose PID file names a live
\* process spawns nothing and records no START_ATTEMPT.
C29_NoOpCases ==
    \A c \in Components :
        /\ PassNoOpCase(c) => LeftAlone(c)
        /\ StartOnLiveHandle(c) =>
              /\ SpawnedFor(c) = {}
              /\ "START_ATTEMPT" \notin SeqToSet(EventTypes(NewRowsFor(c)))

\* C29 without the start on a process the caller may not probe.
C29_NoOpCasesWhenProbed ==
    \A c \in Components :
        /\ PassNoOpCase(c) => LeftAlone(c)
        /\ (StartOnLiveHandle(c) /\ lastOp.perm) =>
              /\ SpawnedFor(c) = {}
              /\ "START_ATTEMPT" \notin SeqToSet(EventTypes(NewRowsFor(c)))

\* A pass found an active component running and left it alone, and a CLI
\* start found the PID file naming a live process and returned.
C29_PassWitness ==
    \E c \in Components :
        /\ PassNoOpCase(c)
        /\ desired_state(c) = "active"
        /\ pid_files[c] \in live

C29_StartWitness ==
    \E c \in Components :
        /\ lastOp.op = "start"
        /\ StartOnLiveHandle(c)
        /\ lastOp.perm
        /\ pid_files[c] \in live

\* The last call invoked the stop of c.
StopInvoked(c) ==
    \/ IsStopCall /\ lastOp.target = c
    \/ /\ lastOp.op = "stop"
       /\ c \in SeqToSet(components_to_act_on(lastOp.mgr, lastOp.target))

\* The rows the last call appended for c begin with STOP_REQUESTED.
StopRequestedFirst(c) ==
    /\ NewRowsFor(c) # <<>>
    /\ NewRowsFor(c)[1].event_type = "STOP_REQUESTED"

\* C30: every stop invocation records STOP_REQUESTED before any other stop
\* event or signal; when the PID is absent or the process is not running the
\* log shows STOP_REQUESTED, then STOPPED_SUCCESSFULLY, the PID file is
\* removed and the stop returns success.
C30_StopRequestedFirst ==
    \A c \in Components :
        (StopInvoked(c) /\ lastOp.db_ok) =>
            /\ StopRequestedFirst(c)
            /\ ObservedNotRunning(c) =>
                  /\ EventTypes(NewRowsFor(c))
                        = <<"STOP_REQUESTED", "STOPPED_SUCCESSFULLY">>
                  /\ c \notin DOMAIN pid_files
                  /\ lastOp.ret = "ok"

\* C30 for the stops of nano_manager / main_llm_manager that find the
\* process running: STOP_REQUESTED is the first row.
C30_StopRequestedFirstWhenRunning ==
    \A c \in Components :
        (IsStopCall /\ lastOp.target = c /\ lastOp.db_ok /\ ~ObservedNotRunning(c))
        => StopRequestedFirst(c)

\* A stop of nano_manager / main_llm_manager found nothing to stop.
C30_AlreadyStoppedWitness ==
    \E c \in Components :
        /\ IsStopCall
        /\ lastOp.target = c
        /\ ObservedNotRunning(c)
        /\ EventTypes(NewRowsFor(c)) = <<"STOPPED_SUCCESSFULLY">>
        /\ lastOp.ret = "ok"

\* --------------------------------------------------- claims C31 to C40
\* The places of lastOp.sent where a SIGKILL was sent.
KillsSent == {i \in 1..Len(lastOp.sent) : lastOp.sent[i][2] = "SIGKILL"}

\* C31: the stop protocol escalates in order and at most once: SIGKILL is
\* sent only after SIGTERM was sent to the same process and the bounded wait
\* elapsed with the process alive at every poll, never to a process that was
\* observed exited, and at most once in a stop invocation.
C31_EscalationInOrder ==
    IsStopCall =>
        /\ Cardinality(KillsSent) <= 1
        /\ ObservedNotRunning(lastOp.target) => lastOp.sent = <<>>
        /\ \A i \in KillsSent :
              /\ \E j \in 1..(i - 1) :
                    lastOp.sent[j] = <<lastOp.sent[i][1], "SIGTERM">>
              /\ "timeout" \in lastOp.notes
              /\ lastOp.sent[i][1] \in lastOp.pre_live
              /\ "STOPPED_SUCCESSFULLY"
                    \notin SeqToSet(EventTypes(NewRowsFor(lastOp.target)))

\* A stop sent SIGTERM, waited the whole bounded wait and then sent SIGKILL.
C31_Witness ==
    /\ IsStopCall
    /\ Len(lastOp.sent) = 2
    /\ lastOp.sent[1][2] = "SIGTERM"
    /\ lastOp.sent[2] = <<lastOp.sent[1][1], "SIGKILL">>
    /\ "timeout" \in lastOp.notes

C32_ForcefulWitness ==
    /\ IsStopCall
    /\ "ProcessLookupError" \in lastOp.notes
    /\ "timeout" \in lastOp.notes
    /\ lastOp.sent = << <<lastOp.pre_pf[lastOp.target], "SIGTERM">> >>
    /\ lastOp.ret = "ok"

\* C33: when the caller may not signal the existing process named by the PID
\* file, stop_component returns failure, sends no further signal, keeps the
\* PID file and records no 'already stopped' STOPPED_SUCCESSFULLY row.
C33_PermissionFailureKeepsHandle ==
    (IsStopCall /\ HandleNamedLiveProcess(lastOp.target) /\ ~lastOp.perm) =>
        /\ lastOp.ret = "fail"
        /\ lastOp.sent = <<>>
        /\ lastOp.target \in DOMAIN pid_files
        /\ pid_files[lastOp.target] = lastOp.pre_pf[lastOp.target]
        /\ "STOPPED_SUCCESSFULLY" \notin SeqToSet(EventTypes(NewRowsFor(lastOp.target)))

\* What the code does in that case: the probe takes the process for gone,
\* the call records STOPPED_SUCCESSFULLY alone, removes the PID file and
\* returns True while the process lives on.
C33_ReportedAlreadyStopped ==
    (IsStopCall /\ HandleNamedLiveProcess(lastOp.target) /\ ~lastOp.perm) =>
        /\ lastOp.ret = "ok"
        /\ lastOp.sent = <<>>
        /\ lastOp.target \notin DOMAIN pid_files
        /\ EventTypes(NewRowsFor(lastOp.target)) \in {<<>>, <<"STOPPED_SUCCESSFULLY">>}
        /\ lastOp.pre_pf[lastOp.target] \in live

C33_ReportedAlreadyStoppedWitness ==
    /\ IsStopCall /\ HandleNamedLiveProcess(lastOp.target) /\ ~lastOp.perm
    /\ EventTypes(NewRowsFor(lastOp.target)) = <<"STOPPED_SUCCESSFULLY">>

\* ------------------------------------- start sequences, statement by statement
\* A start sequence is a reconciliation pass reaching a component
\* (get_component_status, then start_component) or a CLI start
\* (start_component alone). Its steps are the statements that touch the PID
\* file, the lifecycle log and the process table; between two steps of one
\* sequence any step of another may run, as the code takes no lock.
StepCommit(w, s, rec) ==
    /\ pid_files' = w.pf
    /\ spawned' = w.spawned
    /\ live' = w.live
    /\ component_lifecycle_log' = w.log
    /\ starts' = [starts EXCEPT ![s] = rec]
    /\ UNCHANGED <<autorun_components, db_writable, scripts, lastOp>>
    /\ UNCHANGED <<bootVars, pidTextVars, llmVars>>

\* A pass of the owning manager reaches the row of c, or the CLI is asked
\* to start c (daemon_manager only has a CLI).
StartBegins(s) ==
    /\ starts[s].pc = "idle"
    /\ \E c \in Components, entry \in {"pass", "cli"} :
          /\ entry = "cli" => manager_affinity(c) = DAEMON_MANAGER
          /\ entry = "pass" => desired_state(c) = "active"
          /\ StepCommit(World, s,
                 [pc |-> IF entry = "pass" THEN "status" ELSE "check",
                  entry |-> entry, component_id |-> c, pid |-> None,
                  began_after |-> {t \in Starters : starts[t].pc = "done"}])

\* ensure_autorun_components_active: `if current_status == "RUNNING": continue`.
StartStatus(s) ==
    /\ starts[s].pc = "status"
    /\ StepCommit(World, s,
           [starts[s] EXCEPT !.pc =
               IF get_component_status(World, starts[s].component_id, NoInput) = "RUNNING"
               THEN "done" ELSE "check"])

\* start_component up to the lifecycle row: the PID file is read and the
\* process probed; daemon_manager and main_llm_manager remove a PID file
\* that names no running process.
start_component_check(m, w, c) ==
    LET running == c \in DOMAIN w.pf /\ is_process_running(w, w.pf[c], NoInput)
        w1 == IF c \in DOMAIN w.pf THEN remove_pid_file(w, c) ELSE w
    IN CASE m = DAEMON_MANAGER ->
              IF c \notin scripts \/ running THEN [w |-> w, proceed |-> FALSE]
              ELSE [w |-> w1, proceed |-> TRUE]
         [] m = NANO_MANAGER ->
              [w |-> w, proceed |-> ~running /\ c \in scripts]
         [] m = MAIN_LLM_MANAGER ->
              IF running THEN [w |-> w, proceed |-> FALSE]
              ELSE [w |-> w1, proceed |-> c \in scripts]

StartCheck(s) ==
    /\ starts[s].pc = "check"
    /\ LET c == starts[s].component_id
           r == start_component_check(manager_affinity(c), World, c)
       IN StepCommit(r.w, s,
              [starts[s] EXCEPT !.pc = IF r.proceed THEN "log" ELSE "done"])

\* The START_ATTEMPT row is inserted and committed.
StartLogAttempt(s) ==
    /\ starts[s].pc = "log"
    /\ LET c == starts[s].component_id
       IN StepCommit(log_lifecycle_event(World, c, None, "START_ATTEMPT",
                                         manager_affinity(c)),
                     s, [starts[s] EXCEPT !.pc = "popen"])

\* subprocess.Popen returns the child, or raises and the sequence ends.
StartPopen(s) ==
    /\ starts[s].pc = "popen"
    /\ LET c == starts[s].component_id
       IN \E ok \in BOOLEAN :
             IF ok
             THEN StepCommit(subprocess_Popen(World, c, manager_affinity(c)), s,
                             [starts[s] EXCEPT !.pc = "write",
                                               !.pid = Len(spawned) + 1])
             ELSE StepCommit(World, s, [starts[s] EXCEPT !.pc = "done"])

\* `with open(pid_file, 'w') as f: f.write(str(process.pid))`.
StartWritePid(s) ==
    /\ starts[s].pc = "write"
    /\ StepCommit(write_pid_file(World, starts[s].component_id, starts[s].pid), s,
                  [starts[s] EXCEPT !.pc = "done"])

\* The components whose start is followed: one of each manager.
RaceTargets == {"temp_main_daemon", "nano_analyzer_01", "main_llm_processor"}

\* One component with desired_state 'active', no process of it alive; its
\* PID file is absent, or left behind by a process that is gone.
RaceInit ==
    /\ \E c \in RaceTargets :
          /\ autorun_components =
                [x \in {c} |-> [manager_affinity |-> default_manager_affinity(c),
                                desired_state |-> "active",
                                launch_args_json |-> default_launch_args_json(c)]]
          /\ \E stale \in BOOLEAN :
                IF stale
                THEN /\ spawned = <<[component_id |-> c,
                                     manager |-> default_manager_affinity(c),
                                     rows_before |-> 0, pgid |-> ShellGroup,
                                     launch_args |-> <<>>]>>
                     /\ pid_files = [x \in {c} |-> 1]
                ELSE /\ spawned = <<>>
                     /\ pid_files = [x \in {} |-> None]
    /\ db_writable = TRUE
    /\ scripts = Components
    /\ live = {}
    /\ component_lifecycle_log = <<>>
    /\ lastOp = NoOp("env")
    /\ BootIdle

RaceNext ==
    \E s \in Starters :
        \/ StartBegins(s)
        \/ StartStatus(s)
        \/ StartCheck(s)
        \/ StartLogAttempt(s)
        \/ StartPopen(s)
        \/ StartWritePid(s)

RaceSpec == RaceInit /\ [][RaceNext]_vars

\* Starters s and t follow the same component and both spawned a process.
BothSpawned(s, t) ==
    /\ s # t
    /\ starts[s].component_id = starts[t].component_id
    /\ starts[s].pid # None
    /\ starts[t].pid # None

C34_SequentialStartsSpawnOnce ==
    \A s, t \in Starters : s \in starts[t].began_after => ~BothSpawned(s, t)

C34_SequentialWitness ==
    \E s, t \in Starters :
        /\ s \in starts[t].began_after
        /\ starts[s].pid # None
        /\ starts[t].pc = "done"
        /\ starts[t].component_id = starts[s].component_id

\* Two overlapping passes have both spawned: two processes of the component
\* are alive and the PID file names one of them.
C34_TwoProcessesWitness ==
    \E s, t \in Starters :
        /\ BothSpawned(s, t)
        /\ starts[s].entry = "pass" /\ starts[t].entry = "pass"
        /\ starts[s].pc = "done" /\ starts[t].pc = "done"
        /\ {starts[s].pid, starts[t].pid} \subseteq live

\* ------------------------------- the orchestrator, statement by statement
\* launch_manager returns the handle of the new process to its caller, which
\* stores it in launched_managers in a later statement; boot.process is the
\* handle held in the caller's local variable in between. _signal_handler
\* runs between any two statements of the main thread.

\* The end of one iteration of the launch loop of BootSystem.run.
run_advance(bt, tracked) ==
    IF bt.i < Len(ManagerOrder) THEN [bt EXCEPT !.i = @ + 1]
    ELSE IF tracked = <<>> THEN [bt EXCEPT !.pc = "exited", !.code = Exit1]
    ELSE [bt EXCEPT !.pc = "monitoring"]

\* run, line 337: `process = self.launch_manager(manager_script, config)`.
StepLaunch ==
    \E in \in BootInputs :
        LET m == ManagerOrder[boot.i]
            b == launch_manager(BootWorld, m, in)
        IN /\ boot.pc = "launching"
           /\ boot.process = "-"
           /\ BootInputsConsulted(in, TRUE, m \in boot.critical)
           /\ BootCommit("launch", m, in, b)
           /\ boot' = IF b.exit # NoExit
                      THEN [boot EXCEPT !.pc = "exited", !.code = b.exit]
                      ELSE IF b.ret # None THEN [boot EXCEPT !.process = m]
                      ELSE run_advance(boot, b.tracked)

\* run, line 339, and monitor_managers, line 239:
\* `self.launched_managers[manager_script] = process`.
StepAssign ==
    LET m == boot.process
        b == [BootWorld EXCEPT !.tracked = Append(@, m)]
    IN /\ boot.pc \in {"launching", "monitoring"}
       /\ boot.process # "-"
       /\ BootCommit("assign", m, [outcome |-> "ok", term_exits |-> {}], b)
       /\ boot' = IF boot.pc = "launching"
                  THEN run_advance([boot EXCEPT !.process = "-"], b.tracked)
                  ELSE [boot EXCEPT !.process = "-"]

\* monitor_managers, lines 227-236 and 245: the handle of the exited manager
\* is deleted and, for a critical manager, launch_manager is called.
relaunch(b, m, in) ==
    IF m \in boot.critical
    THEN LET b1 == log_manager_event(b, m, b.procs[m].gen, "MANAGER_CRASHED")
             b2 == [b1 EXCEPT !.tracked = SelectSeq(@, LAMBDA x : x # m)]
         IN launch_manager(b2, m, in)
    ELSE [b EXCEPT !.tracked = SelectSeq(@, LAMBDA x : x # m)]

StepHealthCheck(m) ==
    \E in \in BootInputs :
        LET b == relaunch(BootWorld, m, in)
        IN /\ boot.pc = "monitoring"
           /\ boot.process = "-"
           /\ \E i \in 1..Len(launched_managers) : launched_managers[i] = m
           /\ mgr_proc[m].status # "running"
           /\ BootInputsConsulted(in, m \in boot.critical, m \in boot.critical)
           /\ BootCommit("health_check", m, in, b)
           /\ boot' = IF b.exit # NoExit
                      THEN [boot EXCEPT !.pc = "exited", !.code = b.exit]
                      ELSE IF b.ret # None THEN [boot EXCEPT !.process = m]
                      ELSE boot

BootStepNext ==
    \/ StepLaunch
    \/ StepAssign
    \/ StepHealthCheck(DAEMON_MANAGER)
    \/ StepHealthCheck(NANO_MANAGER)
    \/ StepHealthCheck(MAIN_LLM_MANAGER)
    \/ BootSignal
    \/ ManagerRuns(DAEMON_MANAGER)
    \/ ManagerRuns(NANO_MANAGER)
    \/ ManagerRuns(MAIN_LLM_MANAGER)

BootStepSpec == BootInit /\ [][BootStepNext]_vars

\* The manager processes the orchestrator had spawned that were alive when
\* its last step began.
AliveManagers == {m \in Managers : bootOp.pre_procs[m].status = "running"}

\* C35: whenever a termination signal is handled, every manager process the
\* orchestrator has spawned and that is alive is in launched_managers and is
\* sent SIGTERM.
C35_NoSupervisorEscapes ==
    bootOp.op = "signal" =>
        \A m \in AliveManagers : WasTracked(m) /\ m \in SentTo("SIGTERM")

\* The signal arrived between launch_manager's return and the assignment:
\* the orchestrator has exited and the manager it had just spawned runs on,
\* never signalled.
C35_EscapedWitness ==
    /\ bootOp.op = "signal"
    /\ boot.pc = "exited"
    /\ boot.process # "-"
    /\ mgr_proc[boot.process].status = "running"
    /\ boot.process \notin SentTo("SIGTERM") \cup SentTo("SIGKILL")

\* The same escape in a relaunch of the health check.
C35_EscapedRelaunchWitness ==
    /\ C35_EscapedWitness
    /\ bootOp.pre_pc = "monitoring"

\* What holds: a signal handled while no handle is in flight reaches every
\* live manager process.
C35_NoEscapeBetweenStatements ==
    (bootOp.op = "signal" /\ boot.process = "-") =>
        \A m \in AliveManagers : WasTracked(m) /\ m \in SentTo("SIGTERM")

\* The critical managers that were launched successfully at least once.
OnceLaunchedCritical == {m \in boot.critical : mgr_proc[m].gen # 0}

\* C37: while the orchestrator is in monitoring mode, every critical manager
\* that was once launched successfully is in launched_managers.
C37_CriticalNeverLost ==
    boot.pc = "monitoring" => \A m \in OnceLaunchedCritical : Tracked(m)

\* The relaunch of a critical manager found its script missing: the
\* orchestrator goes on monitoring without that manager.
C37_LostWitness ==
    /\ boot.pc = "monitoring"
    /\ bootOp.op = "health_check"
    /\ bootOp.mgr \in boot.critical
    /\ bootOp.outcome = "no_script"
    /\ WasTracked(bootOp.mgr)
    /\ ~Tracked(bootOp.mgr)

\* What holds: after the health check of a critical manager the orchestrator
\* is still monitoring exactly when launch_manager returned, and the manager
\* is tracked exactly when the relaunch gave a process.
C37_TrackedIffRelaunched ==
    (bootOp.op = "health_check" /\ bootOp.mgr \in boot.critical) =>
        /\ boot.pc = "monitoring" <=> bootOp.outcome # "spawn_error"
        /\ Tracked(bootOp.mgr) <=> bootOp.outcome = "ok"

\* C38: when the orchestrator has exited through its own control flow after
\* writing its PID file, the boot PID file has been removed.
C38_BootPidFileRemovedOnExit ==
    boot.pc = "exited" => ~boot.pid_file

\* The abort on a critical launch failure leaves the file behind.
C38_LeftOnAbortWitness ==
    /\ boot.pc = "exited" /\ boot.code = Exit1 /\ boot.pid_file
    /\ bootOp.outcome = "spawn_error"

\* So does the abort because no manager was launched.
C38_LeftOnNoManagerWitness ==
    /\ boot.pc = "exited" /\ boot.code = Exit1 /\ boot.pid_file
    /\ bootOp.outcome = "no_script"
    /\ launched_managers = <<>>

\* What holds: the signal-driven shutdown removes the file.
C38_RemovedOnSignal ==
    (boot.pc = "exited" /\ boot.code = Exit0) => ~boot.pid_file

C38_RemovedOnSignalWitness ==
    boot.pc = "exited" /\ bootOp.op = "signal" /\ ~boot.pid_file

\* The terminal outcome rows the last call appended for its target.
TerminalEvents ==
    SelectSeq(EventTypes(NewRowsFor(lastOp.target)),
              LAMBDA e : e \in {"STOPPED_SUCCESSFULLY", "STOPPED_FORCEFULLY", "STOP_FAILED"})

\* The terminal row agrees with the returned result.
TerminalAgrees ==
    /\ Len(TerminalEvents) = 1
    /\ lastOp.ret = IF TerminalEvents[1] = "STOP_FAILED" THEN "fail" ELSE "ok"

\* C36: with the lifecycle log writable, every stop_component call that
\* returns has recorded exactly one terminal outcome row for the component,
\* STOP_FAILED when it returned False and STOPPED_SUCCESSFULLY or
\* STOPPED_FORCEFULLY when it returned True.
C36_OneTerminalEvent ==
    (IsStopCall /\ lastOp.db_ok) => TerminalAgrees

\* The already-dead race: True is returned after STOP_REQUESTED alone.
C36_NoTerminalEventWitness ==
    /\ IsStopCall /\ lastOp.db_ok
    /\ "ProcessLookupError" \in lastOp.notes
    /\ lastOp.ret = "ok"
    /\ EventTypes(NewRowsFor(lastOp.target)) = <<"STOP_REQUESTED">>

\* What holds: a call in which os.kill raised nothing records exactly one
\* terminal row, and it agrees with the result.
C36_OneTerminalEventUnlessRaised ==
    (IsStopCall /\ lastOp.db_ok
        /\ lastOp.notes \cap {"ProcessLookupError", "PermissionError"} = {})
    => TerminalAgrees

C36_ForcefulWitness ==
    /\ IsStopCall /\ lastOp.db_ok
    /\ TerminalEvents = <<"STOPPED_FORCEFULLY">>
    /\ lastOp.ret = "ok"

C36_FailedWitness ==
    /\ IsStopCall /\ lastOp.db_ok
    /\ TerminalEvents = <<"STOP_FAILED">>
    /\ lastOp.ret = "fail"

\* ------------------------------------- signals sent on the PID a file holds
\* The PID read from the text of a PID file is an integer of any sign. What
\* os.kill(pid, sig) addresses: the process pid when pid > 0, the process
\* group of the caller when pid = 0, every process the caller may signal
\* when pid = -1, the process group -pid when pid < -1.
\*   kills    the os.kill calls that delivered: <<pid, signal>>; "0" is the
\*            null signal of a probe
\*   raised   the last os.kill raised OSError
\*   running  what the last is_process_running returned
SignalWorld ==
    [file |-> pid_file_text, kills |-> <<>>, raised |-> FALSE, running |-> FALSE,
     ret |-> "-"]

\* os.kill(pid, sig). found: the process or group addressed exists; the
\* caller's own group always does.
os_kill(k, pid, sig, found) ==
    IF pid = 0 \/ found
    THEN [k EXCEPT !.kills = Append(@, <<pid, sig>>), !.raised = FALSE]
    ELSE [k EXCEPT !.raised = TRUE]

\* is_process_running(pid) on what read_pid_file returned.
is_process_running_os(k, pid, found) ==
    IF pid.kind = "None" THEN [k EXCEPT !.running = FALSE]
    ELSE LET k1 == os_kill(k, pid.value, "0", found)
         IN [k1 EXCEPT !.running = ~k1.raised]

\* manager_utils.get_component_full_status
get_component_full_status(k, found) ==
    LET pid == read_pid_file_text(k.file)
    IN IF pid.kind = "None" THEN [k EXCEPT !.ret = "STOPPED"]
       ELSE LET k1 == is_process_running_os(k, pid, found)
            IN [k1 EXCEPT !.ret = IF k1.running THEN "RUNNING" ELSE "STALE_PID"]

\* stop_component_with_timeout(pid): what it passes to os.kill. The polls of
\* the wait probe the same pid.
stop_component_with_timeout_os(k, pid, in) ==
    LET k1 == os_kill(k, pid, "SIGTERM", in.found)
    IN IF k1.raised THEN [k1 EXCEPT !.ret = "True"]
       ELSE IF in.term_exits THEN [k1 EXCEPT !.ret = "True"]
       ELSE LET k2 == os_kill(os_kill(k1, pid, "0", TRUE), pid, "SIGKILL", TRUE)
            IN IF in.kill_dies THEN [k2 EXCEPT !.ret = "True"]
               ELSE [os_kill(k2, pid, "0", TRUE) EXCEPT !.ret = "False"]

\* nano_manager.stop_component / main_llm_manager.stop_component on the
\* text of the PID file: `if not pid or not is_process_running(pid)`.
stop_component_os(k, in) ==
    LET pid == read_pid_file_text(k.file)
        k1 == IF pid.kind = "None" \/ pid.value = 0
              THEN [k EXCEPT !.running = FALSE]
              ELSE is_process_running_os(k, pid, in.found)
    IN IF ~k1.running
       THEN [k1 EXCEPT !.file = [exists |-> FALSE, text |-> <<>>], !.ret = "True"]
       ELSE LET k2 == stop_component_with_timeout_os(k1, pid.value, in)
            IN IF k2.ret = "True"
               THEN [k2 EXCEPT !.file = [exists |-> FALSE, text |-> <<>>]]
               ELSE k2

SignalCommit(op, k) ==
    /\ pid_file_text' = k.file
    /\ pidOp' = [op |-> op, file |-> pid_file_text,
                 by_write |-> pidOp.by_write /\ k.file = pid_file_text,
                 pid |-> pidOp.pid,
                 read |-> read_pid_file_text(pid_file_text),
                 kills |-> k.kills, ret |-> k.ret]
    /\ UnchangedButPidText

GetComponentFullStatus ==
    \E found \in BOOLEAN :
        SignalCommit("status", get_component_full_status(SignalWorld, found))

StopComponentOnFile ==
    \E in \in [found : BOOLEAN, term_exits : BOOLEAN, kill_dies : BOOLEAN] :
        SignalCommit("stop", stop_component_os(SignalWorld, in))

PidSignalNext ==
    \/ GetComponentFullStatus
    \/ StopComponentOnFile
    \/ WritePidFile

PidSignalSpec == PidTextInit /\ [][PidSignalNext]_vars

\* The last call probed or stopped on the PID of the file.
IsSignalCall == pidOp.op \in {"status", "stop"}

\* C39: whatever integer the PID file holds, the liveness probe and the stop
\* protocol only ever pass a strictly positive PID to os.kill; a value <= 0
\* is treated as absent.
C39_OnlyPositivePidsSignalled ==
    IsSignalCall =>
        /\ \A i \in 1..Len(pidOp.kills) : pidOp.kills[i][1] > 0
        /\ (pidOp.read.kind = "value" /\ pidOp.read.value <= 0) =>
              pidOp.ret \in {"STOPPED", "True"}

\* The file holds -1 and stop_component sends SIGTERM to -1.
C39_NegativePidSignalledWitness ==
    /\ pidOp.op = "stop"
    /\ pidOp.read = Value(0 - 1)
    /\ \E i \in 1..Len(pidOp.kills) : pidOp.kills[i] = <<0 - 1, "SIGTERM">>

\* The file holds 0 and get_component_full_status probes PID 0 and reports
\* RUNNING.
C39_ZeroProbedWitness ==
    /\ pidOp.op = "status"
    /\ pidOp.read = Value(0)
    /\ pidOp.kills = << <<0, "0">> >>
    /\ pidOp.ret = "RUNNING"

\* What holds: stop_component sends nothing when the file holds 0, and a
\* positive PID is the only one signalled when the file holds one.
C39_ZeroTreatedAsAbsentByStop ==
    /\ (pidOp.op = "stop" /\ pidOp.read = Value(0)) =>
          pidOp.kills = <<>> /\ pidOp.ret = "True" /\ ~pid_file_text.exists
    /\ (IsSignalCall /\ pidOp.read.kind = "value" /\ pidOp.read.value > 0) =>
          \A i \in 1..Len(pidOp.kills) : pidOp.kills[i][1] = pidOp.read.value

C39_ZeroTreatedAsAbsentWitness ==
    pidOp.op = "stop" /\ pidOp.read = Value(0) /\ pidOp.file.exists

\* ------------------------------------------ the processor killed at work
\* llm_processor.main commits processed=1 (lines 100-101) before it acts on
\* the notification. The process killed between that commit and the commit
\* of the effect leaves the row marked and whatever it had inserted rolled
\* back; started again, it loads the configuration (line 86) and polls.
crash_after_mark(w, i) ==
    LET note == w.llm_notifications[i]
        w0 == log_db_access(w, "main_llm_processor", "llm_notifications", "READ")
        w1 == [w0 EXCEPT !.llm_notifications[i].processed = 1,
                         !.handled = Append(@, note)]
    IN load_config(w1)

ProcessorCrashes ==
    \E i \in 1..Len(llm_notifications) :
          /\ llm_notifications[i].processed = 0
          /\ LlmCommit("processor_crash", crash_after_mark(LlmWorld, i))

LlmCrashNext ==
    \/ CommandDaemonPoll
    \/ ConfigDaemonPoll
    \/ ProcessorPoll
    \/ ProcessorCrashes
    \/ PostNotification
    \/ RequestReload
    \/ LlmWrites

LlmCrashSpec == LlmInit /\ [][LlmCrashNext]_vars

\* Every notification this step marks processed has its effect committed by
\* this step: the configuration loaded, or its output rows appended.
EffectApplied ==
    \A i \in 1..Len(llm_notifications) :
        (/\ i <= Len(llm_notifications')
         /\ llm_notifications[i].processed = 0
         /\ llm_notifications'[i].processed = 1)
        => LET note == llm_notifications[i]
               rows == ExpectedOutputs(note)
           IN /\ Len(llm_outputs') = Len(llm_outputs) + Len(rows)
              /\ \A k \in 1..Len(rows) :
                    llm_outputs'[Len(llm_outputs) + k].content = rows[k]
              /\ note.notification_type = "CONFIG_RELOAD" =>
                    /\ daemons'.read_tables = table_list(llm_io_config.read_tables)
                    /\ daemons'.output_table = llm_io_config.output_table

\* C40: a notification is never marked processed without its effect having
\* been applied and committed, also when the processor is killed at any
\* point of its loop.
C40_ProcessedOnlyWithEffect == [][EffectApplied]_vars

\* A RUN is marked processed and llm_outputs holds no row for it.
C40_LostNotificationWitness ==
    /\ llmOp.op = "processor_crash"
    /\ llmOp.handled[1].notification_type = "RUN"
    /\ llm_notifications[llmOp.handled[1].id].processed = 1
    /\ llm_outputs = <<>>

\* What holds: a step of the loop that runs to its end applies the effect of
\* the notification it marks.
EffectAppliedUnlessKilled == llmOp'.op # "processor_crash" => EffectApplied

C40_EffectAppliedUnlessKilled == [][EffectAppliedUnlessKilled]_vars
====
